---- MODULE Spec2Model ----
(***************************************************************************)
(* A model of the research pipeline of ghost-browse: the per-domain rate   *)
(* limiter (rate-limiter.mjs), the page cache (cache.mjs), the retry       *)
(* wrapper (ghost-browse.mjs withRetry), the source-job join and the       *)
(* chunked page reader (deep-research.mjs), the search jobs themselves,    *)
(* the HTTP server (server.mjs) and the seeded fingerprint generator       *)
(* (fingerprint.mjs).                                                      *)
(*                                                                         *)
(* Each component has its own specification (SpecLimiter, SpecRetry, ...)  *)
(* over its own variables; the variables of the other components stay at   *)
(* their initial values under it.                                          *)
(*                                                                         *)
(* Time is an integer clock `now` in units of 100 ms (so the limiter's     *)
(* "+100ms buffer" is 1).  Strings that are split on '.' by the code are   *)
(* sequences of labels: "www.google.com" is <<"www","google","com">>.      *)
(***************************************************************************)
EXTENDS Integers, Sequences, FiniteSets, TLC

VARIABLES
  now,          \* Date.now(), in units of 100 ms
  requestLog,   \* rate-limiter.mjs: const requestLog = new Map()  (domain -> [timestamps])
  lpc,          \* per caller of waitForSlot: "idle" | "waiting" (suspended in setTimeout)
  ldomain,      \* per caller: the `domain` local of its suspended waitForSlot call
  lwake,        \* per caller: the instant its setTimeout(r, waitMs) is due
  lcalls,       \* number of waitForSlot calls made so far
  \* ghost-browse.mjs withRetry(fn, opts)
  ropts,        \* the opts argument
  rpc,          \* "init" | "calling" (awaiting fn()) | "sleeping" | "returned" | "thrown"
  maxAttempts,  \* const maxAttempts
  baseDelay,    \* const baseDelay
  attempt,      \* the loop variable
  rcalls,       \* the outcome of every fn() invocation that has settled, in order
  rinvoked,     \* number of fn() invocations made
  slept,        \* the delays passed to sleep(), in order
  rresult,      \* what withRetry returned or threw
  \* deep-research.mjs main pipeline
  sources,      \* const sources (the names given with --sources)
  concurrency,  \* const concurrency = parseInt(--concurrency)
  readPages,    \* const readPages = parseInt(--read)
  phase,        \* "search" | "read" | "closing" | "output"
  job,          \* per source: the promise of its search job (searchJobs[i])
  deadline,     \* SOURCE_TIMEOUT has elapsed since the withTimeout calls
  timerFired,   \* per source: its withTimeout timer callback has run
  race,         \* per source: the promise withTimeout returned
  allResults,   \* const allResults
  urlsToRead,   \* const urlsToRead
  ri,           \* the page-read loop variable i
  reads,        \* per index of urlsToRead: the promise of its readPage call
  pageContents, \* let pageContents
  spin,         \* parity of the number of page-read loop iterations
  confidence,   \* const confidence
  \* cache.mjs
  files,        \* per cache key: the file CACHE_DIR/<key>.json
  cop,          \* the last call of SetCacheOp / GetCachedOp: arguments and result
  \* page readers: readPage, handleFetch, fetchPage
  rdpc,         \* per reader: the await it is suspended at, "idle" or "done"
  rdkind,       \* per reader: the function running
  rdurl,        \* per reader: its url argument
  rdlog,        \* per reader: what its read has done so far, in order
  rdbefore,     \* per reader: the cache file of its url when the read began, and
                \* whether it had outlived the ttl
  \* deep-research.mjs phase 3: computeConfidence, crossReference
  ain,          \* the allResults argument
  aconf,        \* what computeConfidence returned
  axref,        \* what crossReference returned
  \* deep-research.mjs decomposeTopic
  dcalls,       \* the calls of decomposeTopic made: [topic, out], in order
  \* deep-research.mjs search jobs: one job, its timer and the join
  jargs,        \* the source of the job, --decompose, --engine, and whether each query has results of its own
  jpc,          \* the await the job is suspended at, "idle" or "done"
  jq,           \* decompose-mode web job: the index of the query q of the loop
  strategy,     \* 1 in the first navigation of searchX, 2 in its fallback
  combinedResults, \* decompose-mode web job: const combinedResults
  jr,           \* what searchX returned
  jlog,         \* what the job has done so far, in order
  timerAt,      \* the instant the withTimeout timer is due
  jfired,       \* the withTimeout timer callback has run
  jrace,        \* the promise withTimeout returned
  joined,       \* Promise.allSettled has resumed and searchResults.forEach has run
  jresults,     \* allResults after the forEach
  \* server.mjs
  serverAuthToken, \* config.serverAuthToken
  requestCount, \* let requestCount
  browser,      \* let browser is not null
  listening,    \* the server accepts connections (until process.exit)
  exchange,     \* the last request, its response and the state it found
  \* fingerprint.mjs generateFingerprint
  fcalls,       \* the calls of generateFingerprint made: [seed, out], in order
  persistent,   \* server.mjs `let browser`: 0 for null, else the launch that made it
  launches,     \* calls of launch() so far
  gpc,          \* per request: where its handler is around getBrowser()
  gpath,        \* per request: the path it asked for
  gusing,       \* per request: the browser its handler got from getBrowser()
  wfile,        \* watch.mjs: the state file of the watched url
  once,         \* --once
  wpc,          \* per doCheck call: where it is
  wfetched,     \* per doCheck call: the content checkPage returned
  wresult       \* per doCheck call: what doCheck returned

limiterVars == <<requestLog, lpc, ldomain, lwake, lcalls>>

retryVars ==
  <<ropts, rpc, maxAttempts, baseDelay, attempt, rcalls, rinvoked, slept, rresult>>

researchVars ==
  <<sources, concurrency, readPages, phase, job, deadline, timerFired, race,
    allResults, urlsToRead, ri, reads, pageContents, spin, confidence>>

cacheVars == <<files, cop>>

readerVars == <<rdpc, rdkind, rdurl, rdlog, rdbefore>>

analysisVars == <<ain, aconf, axref>>

decomposeVars == <<dcalls>>

jobVars ==
  <<jargs, jpc, jq, strategy, combinedResults, jr, jlog, timerAt, jfired, jrace,
    joined, jresults>>

serverVars == <<serverAuthToken, requestCount, browser, listening, exchange>>

fingerprintVars == <<fcalls>>

launchVars == <<persistent, launches, gpc, gpath, gusing>>

watchVars == <<wfile, once, wpc, wfetched, wresult>>

vars ==
  <<now, limiterVars, retryVars, researchVars, cacheVars, readerVars,
    analysisVars, decomposeVars, jobVars, serverVars,
    fingerprintVars,
    launchVars,
    watchVars>>

\* what the steps of one component leave alone
FrameLimiter ==
  UNCHANGED <<retryVars, researchVars, cacheVars, readerVars, analysisVars, decomposeVars, jobVars, serverVars, fingerprintVars, launchVars, watchVars>>
FrameRetry ==
  UNCHANGED <<now, limiterVars, researchVars, cacheVars, readerVars, analysisVars, decomposeVars, jobVars, serverVars, fingerprintVars, launchVars, watchVars>>
FrameResearch ==
  UNCHANGED <<now, limiterVars, retryVars, cacheVars, readerVars, analysisVars, decomposeVars, jobVars, serverVars, fingerprintVars, launchVars, watchVars>>
FrameCache ==
  UNCHANGED <<now, limiterVars, retryVars, researchVars, readerVars, analysisVars, decomposeVars, jobVars, serverVars, fingerprintVars, launchVars, watchVars>>
FrameReader ==
  UNCHANGED <<now, retryVars, researchVars, analysisVars, decomposeVars, jobVars, serverVars, fingerprintVars, launchVars, watchVars>>
FrameDecompose ==
  UNCHANGED <<now, limiterVars, retryVars, researchVars, cacheVars, readerVars,
              analysisVars, jobVars, serverVars, fingerprintVars, launchVars, watchVars>>
FrameAnalysis ==
  UNCHANGED <<now, limiterVars, retryVars, researchVars, cacheVars, readerVars, decomposeVars, jobVars, serverVars, fingerprintVars, launchVars, watchVars>>
FrameJob ==
  UNCHANGED <<retryVars, researchVars, cacheVars, readerVars, analysisVars,
              decomposeVars, serverVars, fingerprintVars, launchVars, watchVars>>
FrameServer ==
  UNCHANGED <<now, limiterVars, retryVars, researchVars, cacheVars, readerVars,
              analysisVars, decomposeVars, jobVars, fingerprintVars, launchVars, watchVars>>
FrameFingerprint ==
  UNCHANGED <<now, limiterVars, retryVars, researchVars, cacheVars, readerVars,
              analysisVars, decomposeVars, jobVars, serverVars, launchVars, watchVars>>
FrameLaunch ==
  UNCHANGED <<now, limiterVars, retryVars, researchVars, cacheVars, readerVars,
              analysisVars, decomposeVars, jobVars, serverVars, fingerprintVars, watchVars>>
FrameWatch ==
  UNCHANGED <<now, limiterVars, retryVars, researchVars, cacheVars, readerVars,
              analysisVars, decomposeVars, jobVars, serverVars, fingerprintVars,
              launchVars>>

\* ------------------------------------------------------------------ bounds

MaxTime == 5        \* the clock stops here unless a timer is pending
NumCallers == 2     \* concurrent callers of waitForSlot
MaxCalls == 3       \* waitForSlot calls made in one run
MaxRetries == 4     \* largest --retries value tried
MaxItems == 4       \* items a source page yields at most
MaxConcurrency == 2 \* largest --concurrency value tried
MaxRead == 3        \* largest --read value tried
MaxTtl == 2         \* largest ttlMs handed to getCached
MaxWords == 2       \* words in a topic at most

Callers == 1..NumCallers

\* ------------------------------------------------------------------ helpers

RECURSIVE SumSeq(_)
SumSeq(s) == IF s = <<>> THEN 0 ELSE Head(s) + SumSeq(Tail(s))

\* Array.prototype.slice(-n) on a sequence of labels
SliceLast(s, n) == IF Len(s) <= n THEN s ELSE SubSeq(s, Len(s) - n + 1, Len(s))

\* --------------------------------------------------------- rate-limiter.mjs

\* config.rateLimits.  The shipped defaults are requests per 60000 ms; the
\* table is overridden by ghost-browse.config.json, and the model uses a
\* configuration with a window of 300 ms so that windows open and close within
\* MaxTime.  Keys: "google.com", "x.com" and "default"; "bing.com" is given
\* the limit the shipped defaults give google.com, 3 requests per 60000 ms.
rateLimits ==
  [k \in {<<"google", "com">>, <<"x", "com">>, <<"bing", "com">>,
          <<"default">>} |->
     CASE k = <<"google", "com">> -> [requests |-> 1, perMs |-> 3]
       [] k = <<"x", "com">>      -> [requests |-> 2, perMs |-> 3]
       [] k = <<"bing", "com">>   -> [requests |-> 3, perMs |-> 60000 \div 100]
       [] OTHER                   -> [requests |-> 2, perMs |-> 2]]

\* The strings handed to waitForSlot.  raw: the string split on '.';
\* scheme: it includes '://'; valid: new URL(raw) does not throw;
\* hostname: new URL(raw).hostname when valid.
SlotArgs ==
  { [raw |-> <<"google", "com">>, scheme |-> FALSE, valid |-> FALSE,
     hostname |-> <<>>],
    [raw |-> <<"https://www", "google", "com/search">>, scheme |-> TRUE,
     valid |-> TRUE, hostname |-> <<"www", "google", "com">>],
    [raw |-> <<"https://example", "org/a">>, scheme |-> TRUE, valid |-> TRUE,
     hostname |-> <<"example", "org">>],
    [raw |-> <<"http://[bad">>, scheme |-> TRUE, valid |-> FALSE,
     hostname |-> <<>>] }

\* a key that folds a host into its parent domain (www.google.com -> google.com)
getDomainParent(urlOrDomain) ==
  LET host == IF urlOrDomain.scheme /\ urlOrDomain.valid
                THEN urlOrDomain.hostname
                ELSE urlOrDomain.raw
  IN IF Len(host) > 2 THEN SliceLast(host, 2) ELSE host

getDomain(urlOrDomain) ==
  IF urlOrDomain.scheme /\ urlOrDomain.valid
    THEN urlOrDomain.hostname
    ELSE urlOrDomain.raw

getLimit(domain) ==
  IF domain \in DOMAIN rateLimits /\ domain # <<"default">>
    THEN rateLimits[domain]
    ELSE IF Len(domain) > 2 /\ SliceLast(domain, 2) \in DOMAIN rateLimits
      THEN rateLimits[SliceLast(domain, 2)]
      ELSE rateLimits[<<"default">>]

\* while (log.length && log[0] < t - perMs) log.shift();
RECURSIVE Prune(_, _, _)
Prune(log, t, perMs) ==
  IF log # <<>> /\ Head(log) < t - perMs
    THEN Prune(Tail(log), t, perMs)
    ELSE log

\* requestLog.get(domain), after `if (!requestLog.has(domain)) requestLog.set(domain, [])`
LogOf(domain) ==
  IF domain \in DOMAIN requestLog THEN requestLog[domain] ELSE <<>>

SetLog(domain, log) ==
  [d \in (DOMAIN requestLog) \cup {domain} |->
     IF d = domain THEN log ELSE requestLog[d]]

\* a push that records the request twice
PushTwice(log, t) == Append(Append(log, t), t)

\* log.push(Date.now())
Push(log, t) == Append(log, t)

\* a wait without the 100 ms buffer
WaitMsNoBuffer(log, limit, t) == Head(log) + limit.perMs - t

\* log[0] + limit.perMs - now + 100
WaitMs(log, limit, t) == Head(log) + limit.perMs - t + 1

\* waitForSlot up to its await: the call either returns at once (having pushed
\* Date.now()) or suspends in setTimeout with the pruned log stored.
Admit(c, urlOrDomain) ==
  LET domain == getDomain(urlOrDomain)
      limit == getLimit(domain)
      log == Prune(LogOf(domain), now, limit.perMs)
  IN /\ lpc[c] = "idle"
     /\ IF Len(log) >= limit.requests /\ WaitMs(log, limit, now) > 0
          THEN /\ requestLog' = SetLog(domain, log)
               /\ lpc' = [lpc EXCEPT ![c] = "waiting"]
               /\ ldomain' = [ldomain EXCEPT ![c] = domain]
               /\ lwake' = [lwake EXCEPT ![c] = now + WaitMs(log, limit, now)]
          ELSE \* not full, or full with waitMs <= 0: re-prune at the same instant, push
               /\ requestLog' = SetLog(domain, Push(log, now))
               /\ UNCHANGED <<lpc, ldomain, lwake>>
     /\ UNCHANGED now

\* a call of waitForSlot, counted so that a run makes at most MaxCalls of them
WaitForSlotCall(c, urlOrDomain) ==
  /\ lcalls < MaxCalls
  /\ lcalls' = lcalls + 1
  /\ Admit(c, urlOrDomain)

\* The continuation after `await new Promise(r => setTimeout(r, waitMs))`:
\* prune again against the current time, then push unconditionally.
WaitForSlotResume(c) ==
  LET domain == ldomain[c]
      limit == getLimit(domain)
      log == Prune(LogOf(domain), now, limit.perMs)
  IN /\ lpc[c] = "waiting"
     /\ now >= lwake[c]
     /\ requestLog' = SetLog(domain, Push(log, now))
     /\ lpc' = [lpc EXCEPT ![c] = "idle"]
     /\ UNCHANGED <<now, ldomain, lwake, lcalls>>

\* Date.now() advances: up to MaxTime, and beyond while a timer is pending
Tick ==
  /\ \/ now < MaxTime
     \/ \E c \in Callers : lpc[c] = "waiting" /\ now < lwake[c]
  /\ now' = now + 1

InitLimiter ==
  /\ requestLog = [d \in {} |-> <<>>]
  /\ lpc = [c \in Callers |-> "idle"]
  /\ ldomain = [c \in Callers |-> <<>>]
  /\ lwake = [c \in Callers |-> 0]
  /\ lcalls = 0

NextLimiter ==
  \/ \E c \in Callers, a \in SlotArgs : WaitForSlotCall(c, a) /\ FrameLimiter
  \/ \E c \in Callers : WaitForSlotResume(c) /\ FrameLimiter
  \/ Tick /\ UNCHANGED limiterVars /\ FrameLimiter

\* waitForSlot called strictly sequentially: one caller, whose next call
\* begins only after the previous one has returned
SequentialCaller == 1

NextSequential ==
  \/ \E a \in SlotArgs : WaitForSlotCall(SequentialCaller, a) /\ FrameLimiter
  \/ WaitForSlotResume(SequentialCaller) /\ FrameLimiter
  \/ Tick /\ UNCHANGED limiterVars /\ FrameLimiter

\* ------------------------------------------------- ghost-browse.mjs withRetry

DefaultRetries == 3        \* opts.retries || 3
DefaultRetryDelay == 2000  \* opts.retryDelay || 2000

\* What the call sites pass: cmdFetch passes { retries } with
\* retries = parseInt(getArg(args, 'retries', '2')), an integer or NaN, and
\* never a retryDelay.
\* A JavaScript number, NaN or undefined: [t |-> "num", n |-> 2],
\* [t |-> "NaN", n |-> 0], [t |-> "undefined", n |-> 0].
Num(n) == [t |-> "num", n |-> n]
NaN == [t |-> "NaN", n |-> 0]
Undefined == [t |-> "undefined", n |-> 0]

RetryOpts ==
  [retries : {Num(n) : n \in -1..MaxRetries} \cup {NaN}, retryDelay : {Undefined}]

\* JavaScript truthiness of a number, NaN or undefined
Truthy(x) == x.t = "num" /\ x.n # 0

\* a || b, with b a number
OrElse(a, b) == IF Truthy(a) THEN a.n ELSE b

RECURSIVE Pow2(_)
Pow2(n) == IF n <= 0 THEN 1 ELSE 2 * Pow2(n - 1)

\* values fn() resolves with, and the messages of the Errors it rejects with
FnValues == {"page-a", "page-b"}
FnMessages ==
  {"net::ERR", "Timeout 30000ms exceeded", "The operation was aborted"}

\* the Error object raised by the k-th invocation
FnError(k, msg) == [attempt |-> k, message |-> msg]

\* const delay = baseDelay * Math.pow(2, attempt - 1)
BackoffDelayDoubled(base, k) == base * Pow2(k)
BackoffDelay(base, k) == base * Pow2(k - 1)

\* if (attempt === maxAttempts) throw err
ThrowWrapped(err) == [kind |-> "throw", value |-> [cause |-> err]]
Throw(err) == [kind |-> "throw", value |-> err]

\* return await fn()
Return(v) == [kind |-> "return", value |-> v]

\* The loop test `attempt <= maxAttempts` followed by the loop body's fn()
\* call, or by the fall through to the end of the function.
LoopTest(k, max) ==
  IF k <= max
    THEN /\ rpc' = "calling"
         /\ rinvoked' = rinvoked + 1
         /\ UNCHANGED rresult
    ELSE /\ rpc' = "returned"
         /\ rresult' = Return("undefined")
         /\ UNCHANGED rinvoked

WithRetryEnter ==
  /\ rpc = "init"
  /\ maxAttempts' = OrElse(ropts.retries, DefaultRetries)
  /\ baseDelay' = OrElse(ropts.retryDelay, DefaultRetryDelay)
  /\ attempt' = 1
  /\ LoopTest(1, maxAttempts')
  /\ UNCHANGED <<ropts, rcalls, slept>>

\* fn() resolves: return await fn()
FnResolves(v) ==
  /\ rpc = "calling"
  /\ rcalls' = Append(rcalls, [ok |-> TRUE, value |-> v])
  /\ rpc' = "returned"
  /\ rresult' = Return(v)
  /\ UNCHANGED <<ropts, maxAttempts, baseDelay, attempt, rinvoked, slept>>

\* fn() rejects: the catch block
FnRejects(msg) ==
  LET err == FnError(attempt, msg)
  IN /\ rpc = "calling"
     /\ rcalls' = Append(rcalls, [ok |-> FALSE, value |-> err])
     /\ IF attempt = maxAttempts
          THEN /\ rpc' = "thrown"
               /\ rresult' = Throw(err)
               /\ UNCHANGED slept
          ELSE /\ rpc' = "sleeping"
               /\ slept' = Append(slept, BackoffDelay(baseDelay, attempt))
               /\ UNCHANGED rresult
     /\ UNCHANGED <<ropts, maxAttempts, baseDelay, attempt, rinvoked>>

\* sleep(delay) is over: attempt++, the loop test, the next fn() call
SleepDone ==
  /\ rpc = "sleeping"
  /\ attempt' = attempt + 1
  /\ LoopTest(attempt + 1, maxAttempts)
  /\ UNCHANGED <<ropts, maxAttempts, baseDelay, rcalls, slept>>

InitRetry ==
  /\ ropts \in RetryOpts
  /\ rpc = "init"
  /\ maxAttempts = 0
  /\ baseDelay = 0
  /\ attempt = 0
  /\ rcalls = <<>>
  /\ rinvoked = 0
  /\ slept = <<>>
  /\ rresult = [kind |-> "none", value |-> "none"]

\* withRetry is not running
IdleRetry ==
  /\ InitRetry
  /\ ropts = [retries |-> NaN, retryDelay |-> Undefined]

NextRetry ==
  \/ WithRetryEnter /\ FrameRetry
  \/ \E v \in FnValues : FnResolves(v) /\ FrameRetry
  \/ \E m \in FnMessages : FnRejects(m) /\ FrameRetry
  \/ SleepDone /\ FrameRetry

\* ------------------------------------------- deep-research.mjs main pipeline

SOURCE_TIMEOUT == 30000

\* the order in which the search jobs are pushed onto searchJobs
SourceOrder == <<"web", "twitter", "reddit", "hn", "github">>

\* the sources a run of the model can ask for
SourceNames == {"web", "twitter"}

\* const limit = parseInt(--limit)
limit == 3

\* the urls of the items a source page can yield, in page order, before
\* results.slice(0, limit)
UrlPool == <<"u1", "u2", "u3", "u4", "u5", "u6">>
RawItems(n) == SubSeq(UrlPool, 1, n)

\* Array.prototype.slice(0, n) for n >= 0
Take(seq, n) == IF Len(seq) <= n THEN seq ELSE SubSeq(seq, 1, n)

\* what searchWeb / searchTwitter / ... return from their try block
SearchOk(s, n) ==
  [source |-> s, results |-> Take(RawItems(n), limit), error |-> "none"]

\* ... and from their catch block
SearchCaught(s) == [source |-> s, results |-> <<>>, error |-> "e.message"]

\* A promise: its status, the value it is fulfilled with, the reason it is
\* rejected with.  `none` stands for the value of a promise that has none.
Pending(none) == [status |-> "pending", value |-> none, reason |-> "none"]
Fulfilled(v) == [status |-> "fulfilled", value |-> v, reason |-> "none"]
Rejected(reason, none) == [status |-> "rejected", value |-> none, reason |-> reason]

NoResult == [source |-> "undefined", results |-> <<>>, error |-> "none"]
NoPage == [url |-> "undefined", error |-> FALSE]

Settled(p) == p.status # "pending"

\* `Source ${i} timed out after ${SOURCE_TIMEOUT/1000}s`
TimeoutError == "timed out after 30s"

\* searchJobs, in order: the sources asked for
RECURSIVE JobList(_)
JobList(k) ==
  IF k > Len(SourceOrder) THEN <<>>
  ELSE (IF SourceOrder[k] \in sources THEN <<SourceOrder[k]>> ELSE <<>>)
         \o JobList(k + 1)

\* searchResults.forEach: a fulfilled result with a value is pushed, a
\* rejected one is only logged
RECURSIVE Collect(_)
Collect(jobs) ==
  IF jobs = <<>> THEN <<>>
  ELSE (IF race[Head(jobs)].status = "fulfilled"
          THEN <<race[Head(jobs)].value>>
          ELSE <<>>) \o Collect(Tail(jobs))

\* allResults.find(r => r.source === 'web')
RECURSIVE Find(_, _)
Find(rs, s) ==
  IF rs = <<>> THEN NoResult
  ELSE IF Head(rs).source = s THEN Head(rs) ELSE Find(Tail(rs), s)

\* r.results || []
Items(r) == IF "results" \in DOMAIN r THEN r.results ELSE <<>>

\* r.results?.length || 0
Count(r) == IF "results" \in DOMAIN r THEN Len(r.results) ELSE 0

\* computeConfidence
RECURSIVE TotalResults(_)
TotalResults(rs) ==
  IF rs = <<>> THEN 0 ELSE Count(Head(rs)) + TotalResults(Tail(rs))

RECURSIVE SourcesWithData(_)
SourcesWithData(rs) ==
  IF rs = <<>> THEN 0
  ELSE (IF Count(Head(rs)) > 0 THEN 1 ELSE 0) + SourcesWithData(Tail(rs))

\* a classification with the MEDIUM threshold one result lower
computeConfidenceLoose(rs) ==
  LET total == TotalResults(rs)
      with == SourcesWithData(rs)
  IN [level |-> IF with >= 3 /\ total >= 10 THEN "HIGH"
                ELSE IF with >= 2 /\ total >= 4 THEN "MEDIUM"
                ELSE "LOW",
      totalResults |-> total,
      sourcesWithData |-> with]

computeConfidence(rs) ==
  LET total == TotalResults(rs)
      with == SourcesWithData(rs)
  IN [level |-> IF with >= 3 /\ total >= 10 THEN "HIGH"
                ELSE IF with >= 2 /\ total >= 5 THEN "MEDIUM"
                ELSE "LOW",
      totalResults |-> total,
      sourcesWithData |-> with]

\* a race that takes the outcome of whichever settles last
RaceLast(current, p) == p

\* Promise.race([promise, timer]): the first of the two to settle decides
\* the outcome, the other is ignored
Race(current, p) == IF Settled(current) THEN current ELSE p

\* The search job of source s settles by itself: searchX returned (from its
\* try or its catch block), or the job rejected (browser.context.newPage() or
\* page.close() threw).  Promise.race takes the first settlement only.
JobSettles(s, p) ==
  /\ s \in sources
  /\ job[s].status = "pending"
  /\ job' = [job EXCEPT ![s] = p]
  /\ race' = [race EXCEPT ![s] = Race(race[s], p)]
  /\ UNCHANGED <<sources, concurrency, readPages, phase, deadline, timerFired,
                 allResults, urlsToRead, ri, reads, pageContents, spin,
                 confidence>>

\* SOURCE_TIMEOUT ms have passed since the withTimeout calls (all made in one
\* synchronous map, so all timers fall due together).
DeadlineReached ==
  /\ ~deadline
  /\ deadline' = TRUE
  /\ UNCHANGED <<sources, concurrency, readPages, phase, job, timerFired, race,
                 allResults, urlsToRead, ri, reads, pageContents, spin,
                 confidence>>

\* setTimeout(() => reject(new Error(...)), SOURCE_TIMEOUT) of source s
TimerFires(s) ==
  /\ s \in sources
  /\ deadline
  /\ ~timerFired[s]
  /\ timerFired' = [timerFired EXCEPT ![s] = TRUE]
  /\ race' = [race EXCEPT ![s] = Race(race[s], Rejected(TimeoutError, NoResult))]
  /\ UNCHANGED <<sources, concurrency, readPages, phase, job, deadline,
                 allResults, urlsToRead, ri, reads, pageContents, spin,
                 confidence>>

\* a join that returns as soon as one job rejects (Promise.all)
JoinReadyFailFast ==
  \/ \A s \in sources : Settled(race[s])
  \/ \E s \in sources : race[s].status = "rejected"

\* Promise.allSettled(searchJobs.map(withTimeout)) resolves
JoinReady == \A s \in sources : Settled(race[s])

\* urlsToRead.slice(i, i + concurrency): the indices (1-based) of the batch.
\* slice(i, NaN) is slice(i, 0).
Batch(urls, i, c) ==
  IF c.t = "num"
    THEN {k \in 1..Len(urls) : i < k /\ k <= i + c.n}
    ELSE {}

\* i += concurrency
Advance(i, c) == IF i.t = "num" /\ c.t = "num" THEN Num(i.n + c.n) ELSE NaN

\* i < urlsToRead.length
LoopGuard(i, urls) == i.t = "num" /\ i.n < Len(urls)

\* batch.map(sr => readPage(...)) starts every read of the batch
StartBatch(rd, b) ==
  [k \in DOMAIN rd |-> IF k \in b THEN Pending(NoPage) ELSE rd[k]]

NotStarted == [status |-> "notstarted", value |-> NoPage, reason |-> "none"]

\* The continuation of the join: collect the results, then phase 2 up to its
\* first await (the first batch of reads, or browser.close()).
Join ==
  LET results == Collect(JobList(1))
      webResult == Find(results, "web")
      urls == Take(webResult.results, readPages.n)
      doRead == /\ webResult.source # "undefined"
                /\ Len(webResult.results) > 0
                /\ readPages.t = "num" /\ readPages.n > 0
  IN /\ phase = "search"
     /\ JoinReady
     /\ allResults' = results
     /\ IF doRead /\ LoopGuard(Num(0), urls)
          THEN /\ phase' = "read"
               /\ urlsToRead' = urls
               /\ reads' = StartBatch([k \in 1..Len(urls) |-> NotStarted],
                                      Batch(urls, 0, concurrency))
          ELSE /\ phase' = "closing"
               /\ UNCHANGED <<urlsToRead, reads>>
     /\ UNCHANGED <<sources, concurrency, readPages, job, deadline, timerFired,
                    race, ri, pageContents, spin, confidence>>

\* what readPage resolves with (a page or an error entry), or its rejection
PageOk(k) == Fulfilled([url |-> urlsToRead[k], error |-> FALSE])
PageFailed(k) == Fulfilled([url |-> urlsToRead[k], error |-> TRUE])
PageRejected == Rejected("r.reason", NoPage)

ReadOutcomes(k) == {PageOk(k), PageFailed(k), PageRejected}

ReadSettles(k, p) ==
  /\ phase = "read"
  /\ k \in DOMAIN reads
  /\ reads[k].status = "pending"
  /\ reads' = [reads EXCEPT ![k] = p]
  /\ UNCHANGED <<sources, concurrency, readPages, phase, job, deadline,
                 timerFired, race, allResults, urlsToRead, ri, pageContents,
                 spin, confidence>>

\* fetched.forEach: one entry per read of the batch, in batch order
RECURSIVE Fetched(_, _)
Fetched(b, k) ==
  IF k > Len(urlsToRead) THEN <<>>
  ELSE (IF k \in b
          THEN <<IF reads[k].status = "fulfilled"
                   THEN reads[k].value
                   ELSE [url |-> "?", error |-> TRUE]>>
          ELSE <<>>) \o Fetched(b, k + 1)

\* a batch join that returns with the first settled read (Promise.race)
BatchAnySettled(b) == \E k \in b : Settled(reads[k])

\* await Promise.allSettled(batch.map(...)) resolves
BatchSettled(b) == \A k \in b : Settled(reads[k])

\* Promise.allSettled(batch...) resolves: collect the batch, i += concurrency,
\* the loop test, and the next batch or browser.close().
LoopStep ==
  LET b == Batch(urlsToRead, ri.n, concurrency)
      next == Advance(ri, concurrency)
  IN /\ phase = "read"
     /\ BatchSettled(b)
     /\ pageContents' = pageContents \o Fetched(b, 1)
     /\ ri' = next
     /\ spin' = 1 - spin
     /\ IF LoopGuard(next, urlsToRead)
          THEN /\ reads' = StartBatch(reads, Batch(urlsToRead, next.n, concurrency))
               /\ UNCHANGED phase
          ELSE /\ phase' = "closing"
               /\ UNCHANGED reads
     /\ UNCHANGED <<sources, concurrency, readPages, job, deadline, timerFired,
                    race, allResults, urlsToRead, confidence>>

\* browser.close() resolves; phases 3 and 4
CloseAndOutput ==
  /\ phase = "closing"
  /\ confidence' = computeConfidence(allResults)
  /\ phase' = "output"
  /\ UNCHANGED <<sources, concurrency, readPages, job, deadline, timerFired,
                 race, allResults, urlsToRead, ri, reads, pageContents, spin>>

JobOutcomes(s) ==
  {Fulfilled(SearchOk(s, n)) : n \in 0..MaxItems}
    \cup {Fulfilled(SearchCaught(s)), Rejected("threw", NoResult)}

\* the state of the pipeline when it is not running
IdleResearch ==
  /\ sources = {}
  /\ concurrency = Num(3)
  /\ readPages = Num(3)
  /\ phase = "search"
  /\ job = [s \in SourceNames |-> Pending(NoResult)]
  /\ deadline = FALSE
  /\ timerFired = [s \in SourceNames |-> FALSE]
  /\ race = [s \in SourceNames |-> Pending(NoResult)]
  /\ allResults = <<>>
  /\ urlsToRead = <<>>
  /\ ri = Num(0)
  /\ reads = <<>>
  /\ pageContents = <<>>
  /\ spin = 0
  /\ confidence = [level |-> "none", totalResults |-> 0, sourcesWithData |-> 0]

\* the search jobs have been started and wrapped by withTimeout
InitResearch ==
  /\ sources \in SUBSET SourceNames
  /\ concurrency \in {Num(n) : n \in 0..MaxConcurrency} \cup {NaN}
  /\ readPages \in {Num(n) : n \in 0..MaxRead} \cup {NaN}
  /\ phase = "search"
  /\ job = [s \in SourceNames |-> Pending(NoResult)]
  /\ deadline = FALSE
  /\ timerFired = [s \in SourceNames |-> FALSE]
  /\ race = [s \in SourceNames |-> Pending(NoResult)]
  /\ allResults = <<>>
  /\ urlsToRead = <<>>
  /\ ri = Num(0)
  /\ reads = <<>>
  /\ pageContents = <<>>
  /\ spin = 0
  /\ confidence = [level |-> "none", totalResults |-> 0, sourcesWithData |-> 0]

NextResearch ==
  \/ \E s \in SourceNames : \E p \in JobOutcomes(s) : JobSettles(s, p) /\ FrameResearch
  \/ DeadlineReached /\ FrameResearch
  \/ \E s \in SourceNames : TimerFires(s) /\ FrameResearch
  \/ Join /\ FrameResearch
  \/ \E k \in DOMAIN reads : \E p \in ReadOutcomes(k) : ReadSettles(k, p) /\ FrameResearch
  \/ LoopStep /\ FrameResearch
  \/ CloseAndOutput /\ FrameResearch

\* ------------------------- deep-research.mjs computeConfidence, crossReference

\* seq with x added unless it is there (Set.add, in insertion order)
SetAdd(seq, x) ==
  IF \E i \in DOMAIN seq : seq[i] = x THEN seq ELSE Append(seq, x)

\* urlMap.get(url).add(source) for `const url = item.url || ''`, if (url);
\* the map is its <<url, sources>> entries in insertion order
AddUrl(m, url, src) ==
  IF url = "" THEN m
  ELSE IF \E i \in DOMAIN m : m[i][1] = url
    THEN [i \in DOMAIN m |->
            IF m[i][1] = url THEN <<url, SetAdd(m[i][2], src)>> ELSE m[i]]
    ELSE Append(m, <<url, <<src>>>>)

\* for (const item of (r.results || []))
RECURSIVE AddItems(_, _, _)
AddItems(m, items, src) ==
  IF items = <<>> THEN m
  ELSE AddItems(AddUrl(m, Head(items), src), Tail(items), src)

\* for (const r of allResults)
RECURSIVE UrlMap(_, _)
UrlMap(m, rs) ==
  IF rs = <<>> THEN m
  ELSE UrlMap(AddItems(m, Items(Head(rs)), Head(rs).source), Tail(rs))

\* a cross-reference that lists every url seen
ExactUrlRefsAll(m) ==
  [i \in DOMAIN m |->
     [url |-> m[i][1], sources |-> m[i][2], type |-> "exact-url"]]

\* for (const [url, sources] of urlMap) if (sources.size >= 2) push
RECURSIVE ExactUrlRefs(_)
ExactUrlRefs(m) ==
  IF m = <<>> THEN <<>>
  ELSE (IF Len(Head(m)[2]) >= 2
          THEN <<[url |-> Head(m)[1], sources |-> Head(m)[2],
                  type |-> "exact-url"]>>
          ELSE <<>>) \o ExactUrlRefs(Tail(m))

\* crossReference.  The items of the model carry a url only (no title or
\* text), so titleMap stays empty and no similar-topic entry is made.
crossReference(rs) == ExactUrlRefs(UrlMap(<<>>, rs))

\* the sources whose results are analysed, in allResults order
AnalysisSources == <<"web", "twitter", "hn">>

\* n items that share one url of their own source
OwnItems(s, n) == [i \in 1..n |-> s]

\* n items without a url
BlankItems(n) == [i \in 1..n |-> ""]

\* the results a source can contribute: items from the common pool, items
\* of its own, items without url, or no results array at all
AnalysisResults(s) ==
  {[source |-> s, results |-> items, error |-> "none"] :
     items \in {RawItems(n) : n \in 0..MaxItems}
                 \cup {OwnItems(s, n) : n \in 1..MaxItems}
                 \cup {BlankItems(n) : n \in 1..MaxItems}}
    \cup {[source |-> s, error |-> "failed"]}

NotAnalysed == [level |-> "none", totalResults |-> 0, sourcesWithData |-> 0]

\* allResults.push(r.value)
AddResult(r) ==
  /\ aconf = NotAnalysed
  /\ Len(ain) < Len(AnalysisSources)
  /\ r.source = AnalysisSources[Len(ain) + 1]
  /\ ain' = Append(ain, r)
  /\ UNCHANGED <<aconf, axref>>

\* const confidence = computeConfidence(allResults);
\* const crossRefs = crossReference(allResults)
Analyse ==
  /\ aconf = NotAnalysed
  /\ aconf' = computeConfidence(ain)
  /\ axref' = crossReference(ain)
  /\ UNCHANGED ain

IdleAnalysis ==
  /\ ain = <<>>
  /\ aconf = NotAnalysed
  /\ axref = <<>>

NextAnalysis ==
  \/ \E s \in {AnalysisSources[i] : i \in DOMAIN AnalysisSources} :
       \E r \in AnalysisResults(s) : AddResult(r) /\ FrameAnalysis
  \/ Analyse /\ FrameAnalysis

\* ------------------------------------------------ deep-research.mjs decomposeTopic

\* The words topics are made of; a topic is the sequence of its words
\* (topic.trim().split(/\s+/)), a query likewise.
Vocabulary == {"AI", "the", "Agents", "of"}

\* w.toLowerCase()
ToLowerCase(w) ==
  CASE w = "AI" -> "ai"
    [] w = "Agents" -> "agents"
    [] OTHER -> w

\* w.length
Length(w) ==
  CASE w \in {"ai", "of"} -> 2
    [] w = "the" -> 3
    [] OTHER -> 6

StopWords ==
  {"the", "and", "for", "with", "from", "about", "how", "what", "why", "does",
   "are", "its"}

Lowered(topic) == [i \in DOMAIN topic |-> ToLowerCase(topic[i])]

LongerThanTwo(w) == Length(w) > 2

NotStopWord(w) == w \notin StopWords

\* const core = words.filter(...)
Core(topic) ==
  SelectSeq(SelectSeq(Lowered(topic), LongerThanTwo), NotStopWord)

\* `${core.join(' ')} <suffix>`
CoreQuery(topic, suffix) == Core(topic) \o suffix

\* a decomposition that leaves out the last sub-question
decomposeTopicFour(topic) ==
  << [label |-> "Overview & current state",
      queries |-> <<topic, CoreQuery(topic, <<"2026", "overview">>),
                    CoreQuery(topic, <<"latest", "news">>)>>],
     [label |-> "Key players & projects",
      queries |-> <<CoreQuery(topic, <<"top", "companies", "projects">>),
                    CoreQuery(topic, <<"leading", "players", "market">>)>>],
     [label |-> "Technical details",
      queries |-> <<CoreQuery(topic, <<"how", "it", "works", "technical">>),
                    CoreQuery(topic, <<"architecture", "explained">>)>>],
     [label |-> "Challenges & risks",
      queries |-> <<CoreQuery(topic, <<"challenges", "problems", "risks">>),
                    CoreQuery(topic, <<"criticism", "concerns">>)>>] >>

decomposeTopic(topic) ==
  << [label |-> "Overview & current state",
      queries |-> <<topic, CoreQuery(topic, <<"2026", "overview">>),
                    CoreQuery(topic, <<"latest", "news">>)>>],
     [label |-> "Key players & projects",
      queries |-> <<CoreQuery(topic, <<"top", "companies", "projects">>),
                    CoreQuery(topic, <<"leading", "players", "market">>)>>],
     [label |-> "Technical details",
      queries |-> <<CoreQuery(topic, <<"how", "it", "works", "technical">>),
                    CoreQuery(topic, <<"architecture", "explained">>)>>],
     [label |-> "Challenges & risks",
      queries |-> <<CoreQuery(topic, <<"challenges", "problems", "risks">>),
                    CoreQuery(topic, <<"criticism", "concerns">>)>>],
     [label |-> "Future outlook",
      queries |-> <<CoreQuery(topic, <<"future", "predictions", "trends">>),
                    CoreQuery(topic, <<"roadmap", "next">>)>>] >>

Topics == UNION {[1..n -> Vocabulary] : n \in 1..MaxWords}

\* one call of decomposeTopic; the model makes up to three in a row
DecomposeCall(topic) ==
  /\ Len(dcalls) < 3
  /\ dcalls' = Append(dcalls, [topic |-> topic, out |-> decomposeTopic(topic)])

IdleDecompose == dcalls = <<>>

NextDecompose == \E topic \in Topics : DecomposeCall(topic) /\ FrameDecompose

\* ---------------------------------------------------------------- cache.mjs

\* JavaScript values held in page data: strings, ISO time stamps, true
Str(x) == [t |-> "str", s |-> x, n |-> 0]
Iso(n) == [t |-> "iso", s |-> "", n |-> n]
True == [t |-> "bool", s |-> "true", n |-> 0]

\* A JavaScript object: its <<key, value>> pairs in insertion order.
Keys(o) == {o[i][1] : i \in DOMAIN o}
Get(o, k) == o[CHOOSE i \in DOMAIN o : o[i][1] = k][2]

\* o[k] = v: an existing key keeps its place, a new one goes last
Assign(o, k, v) ==
  IF k \in Keys(o)
    THEN [i \in DOMAIN o |-> IF o[i][1] = k THEN <<k, v>> ELSE o[i]]
    ELSE Append(o, <<k, v>>)

\* { ...o, ...src }
RECURSIVE Spread(_, _)
Spread(o, src) ==
  IF src = <<>> THEN o
  ELSE Spread(Assign(o, Head(src)[1], Head(src)[2]), Tail(src))

\* the urls pages are cached under
CacheUrls == {"https://www.google.com/search", "https://example.org/b.pdf"}

\* what callers hand to setCache: { title, url, content } (readPage), the
\* same with the url the page redirected to (handleFetch), and data without
\* a url
PageData(url) ==
  <<<<"title", Str("T")>>, <<"url", Str(url)>>, <<"content", Str("C")>>>>
MovedData ==
  <<<<"title", Str("T")>>, <<"url", Str("https://example.org/moved")>>,
    <<"content", Str("C")>>>>
BareData == <<<<"title", Str("T")>>, <<"content", Str("C")>>>>

DataSet(url) == {PageData(url), MovedData, BareData}

\* createHash('md5').update(url).digest('hex'), taken to be collision free
cacheKey(url) == <<"md5", url>>

CacheKeys == {cacheKey(u) : u \in CacheUrls}

\* JSON text: the pairs of the object written; ok is FALSE for a file that
\* does not parse
JSON_stringify(o) == [ok |-> TRUE, pairs |-> o]
JSON_parse(text) == text.pairs

\* a file: data is the object setCache was handed (kept for the record)
NoFile == [exists |-> FALSE, mtime |-> 0, text |-> [ok |-> FALSE, pairs |-> <<>>],
           data |-> <<>>]
CorruptFile == [exists |-> TRUE, mtime |-> 0, text |-> [ok |-> FALSE, pairs |-> <<>>],
                data |-> <<>>]

Null == [null |-> TRUE, obj |-> <<>>]
Obj(o) == [null |-> FALSE, obj |-> o]

\* an entry that expires one instant early
ExpiredInclusive(mtimeMs, ttlMs) == now - mtimeMs >= ttlMs

\* Date.now() - stat.mtimeMs > ttlMs
Expired(mtimeMs, ttlMs) == now - mtimeMs > ttlMs

\* a lookup that deletes whatever entry it finds
getCachedEvict(url, ttlMs) ==
  LET key == cacheKey(url)
  IN IF ~files[key].exists
       THEN [value |-> Null, files |-> files]
       ELSE [value |-> Null, files |-> [files EXCEPT ![key] = NoFile]]

\* getCached: the value returned and the files it leaves
getCached(url, ttlMs) ==
  LET key == cacheKey(url)
      f == files[key]
  IN IF ~f.exists
       THEN [value |-> Null, files |-> files]
       ELSE IF Expired(f.mtime, ttlMs)
         THEN [value |-> Null, files |-> [files EXCEPT ![key] = NoFile]]
         ELSE IF f.text.ok
           THEN [value |-> Obj(JSON_parse(f.text)), files |-> files]
           ELSE [value |-> Null, files |-> files]

\* setCache: the files it leaves
WrittenAt(url, data, t) ==
  [exists |-> TRUE, mtime |-> t,
   text |-> JSON_stringify(
              Spread(<<<<"url", Str(url)>>, <<"cachedAt", Iso(t)>>>>, data)),
   data |-> data]

setCache(url, data) ==
  [files EXCEPT ![cacheKey(url)] = WrittenAt(url, data, now)]

\* if (cached) return { ...cached, fromCache: true }
Surfaced(cached) ==
  IF cached.null THEN Null
  ELSE Obj(Assign(Spread(<<>>, cached.obj), "fromCache", True))

NoCall == [op |-> "none", url |-> "", ttl |-> 0, at |-> 0, before |-> NoFile,
           value |-> Null, surfaced |-> Null]

\* a caller stores page data
SetCacheOp(url, data) ==
  /\ files' = setCache(url, data)
  /\ cop' = [op |-> "set", url |-> url, ttl |-> 0, at |-> now,
             before |-> files[cacheKey(url)], value |-> Null, surfaced |-> Null]

\* a caller looks a page up, as readPage / handleFetch / fetchPage do first
GetCachedOp(url, ttlMs) ==
  LET r == getCached(url, ttlMs)
  IN /\ files' = r.files
     /\ cop' = [op |-> "get", url |-> url, ttl |-> ttlMs, at |-> now,
                before |-> files[cacheKey(url)], value |-> r.value,
                surfaced |-> Surfaced(r.value)]

IdleCache ==
  /\ files = [k \in CacheKeys |-> NoFile]
  /\ cop = NoCall

\* files left behind by earlier runs are absent or unreadable here
InitCache ==
  /\ files \in [CacheKeys -> {NoFile, CorruptFile}]
  /\ cop = NoCall

NextCache ==
  \/ \E u \in CacheUrls : \E d \in DataSet(u) : SetCacheOp(u, d) /\ FrameCache
  \/ \E u \in CacheUrls : \E ttlMs \in 0..MaxTtl :
       GetCachedOp(u, ttlMs) /\ FrameCache
  \/ Tick /\ UNCHANGED limiterVars /\ FrameLimiter

\* ------------------------- page readers: readPage, handleFetch, fetchPage

ReaderKinds == {"readPage", "handleFetch", "fetchPage"}

\* the reads of a run, each made by one of the callers of waitForSlot
Readers == {1, 2}

\* the urls read, given as waitForSlot takes them (see SlotArgs), with href
\* the whole string
HtmlUrl ==
  [raw |-> <<"https://www", "google", "com/search">>, scheme |-> TRUE,
   valid |-> TRUE, hostname |-> <<"www", "google", "com">>,
   href |-> "https://www.google.com/search"]
PdfUrl ==
  [raw |-> <<"https://example", "org/b", "pdf">>, scheme |-> TRUE,
   valid |-> TRUE, hostname |-> <<"example", "org">>,
   href |-> "https://example.org/b.pdf"]

ReadUrls == {HtmlUrl, PdfUrl}

\* url.match(/\.pdf(\?|$)/i)
IsPdf(u) == u.raw[Len(u.raw)] = "pdf"

\* getCached(url, 600000), opts.cacheTtl || 600000: in units of 100 ms
ReadTtl == 600000 \div 100

\* if (cached)
IsHit(cached) == ~cached.null

Log(r, events) == rdlog' = [rdlog EXCEPT ![r] = rdlog[r] \o events]
Goto(r, pc) == rdpc' = [rdpc EXCEPT ![r] = pc]

\* The call of a reader up to its first await: the cache lookup, then the
\* return of the cached page, or on a miss the PDF branch (readPage),
\* context.newPage() (readPage) or waitForSlot(url) (handleFetch, fetchPage).
ReadStart(r, kind, u) ==
  LET cached == getCached(u.href, ReadTtl).value
      looked == IF cached.null THEN "getCached:miss" ELSE "getCached:hit"
  IN /\ rdpc[r] = "idle"
     /\ rdkind' = [rdkind EXCEPT ![r] = kind]
     /\ rdurl' = [rdurl EXCEPT ![r] = u]
     /\ rdbefore' = [rdbefore EXCEPT ![r] = [file |-> files[cacheKey(u.href)],
            expired |-> Expired(files[cacheKey(u.href)].mtime, ReadTtl)]]
     /\ files' = getCached(u.href, ReadTtl).files
     /\ UNCHANGED cop
     /\ IF IsHit(cached)
          THEN /\ rdlog' = [rdlog EXCEPT ![r] = <<looked, "return:cached">>]
               /\ Goto(r, "done")
               /\ UNCHANGED limiterVars
          ELSE IF kind = "readPage"
            THEN /\ rdlog' = [rdlog EXCEPT ![r] = <<looked>>]
                 /\ Goto(r, IF IsPdf(u) THEN "extract" ELSE "newPage")
                 /\ UNCHANGED limiterVars
            ELSE /\ rdlog' = [rdlog EXCEPT ![r] = <<looked, "waitForSlot">>]
                 /\ Goto(r, "slot")
                 /\ WaitForSlotCall(r, u)
     /\ UNCHANGED now

\* how a failure inside the reader ends the read: readPage catches it and
\* returns an error entry, handleFetch and fetchPage reject
Fails(r) ==
  /\ Log(r, <<IF rdkind[r] = "readPage" THEN "return:error" ELSE "throw">>)
  /\ Goto(r, "done")

\* the PDF branch of readPage: execSync(pdf-extract), setCache, return
ExtractDone(r, ok) ==
  /\ rdpc[r] = "extract"
  /\ IF ok
       THEN /\ Log(r, <<"extract", "setCache", "return:data">>)
            /\ files' = setCache(rdurl[r].href, PageData(rdurl[r].href))
       ELSE /\ Log(r, <<"extract", "return:error">>)
            /\ UNCHANGED files
  /\ Goto(r, "done")
  /\ UNCHANGED <<now, limiterVars, cop, rdkind, rdurl, rdbefore>>

\* await context.newPage() returns: readPage goes on to waitForSlot(url),
\* handleFetch and fetchPage (admitted already) to page.goto(url).  newPage
\* is outside the try of all three: its failure rejects the read.
NewPageDone(r, ok) ==
  /\ rdpc[r] = "newPage"
  /\ IF ~ok
       THEN /\ Log(r, <<"throw">>)
            /\ Goto(r, "done")
            /\ UNCHANGED limiterVars
       ELSE IF rdkind[r] = "readPage"
         THEN /\ Log(r, <<"newPage", "waitForSlot">>)
              /\ Goto(r, "slot")
              /\ WaitForSlotCall(r, rdurl[r])
         ELSE /\ Log(r, <<"newPage", "goto">>)
              /\ Goto(r, "goto")
              /\ UNCHANGED limiterVars
  /\ UNCHANGED <<now, cacheVars, rdkind, rdurl, rdbefore>>

\* await waitForSlot(url) returns
SlotReturned(r) ==
  /\ rdpc[r] = "slot"
  /\ lpc[r] = "idle"
  /\ CASE rdkind[r] = "readPage" ->
            Log(r, <<"admitted", "goto">>) /\ Goto(r, "goto")
       [] rdkind[r] = "handleFetch" ->
            Log(r, <<"admitted">>) /\ Goto(r, "getBrowser")
       [] OTHER ->
            Log(r, <<"admitted">>) /\ Goto(r, "newPage")
  /\ UNCHANGED <<now, limiterVars, cacheVars, rdkind, rdurl, rdbefore>>

\* handleFetch: await getBrowser() returns
GetBrowserDone(r, ok) ==
  /\ rdpc[r] = "getBrowser"
  /\ IF ok
       THEN Log(r, <<"getBrowser">>) /\ Goto(r, "newPage")
       ELSE Log(r, <<"throw">>) /\ Goto(r, "done")
  /\ UNCHANGED <<now, limiterVars, cacheVars, rdkind, rdurl, rdbefore>>

\* await page.goto(url) returns, and with it the waits up to page.evaluate;
\* in fetchPage a captcha that is not solved ends the read with a
\* placeholder that is not cached.
GotoDone(r, outcome) ==
  /\ rdpc[r] = "goto"
  /\ CASE outcome = "page" -> UNCHANGED rdlog /\ Goto(r, "evaluate")
       [] outcome = "captcha" ->
            /\ rdkind[r] = "fetchPage"
            /\ Log(r, <<"return:captcha">>)
            /\ Goto(r, "done")
       [] OTHER -> Fails(r)
  /\ UNCHANGED <<now, limiterVars, cacheVars, rdkind, rdurl, rdbefore>>

\* await page.evaluate() returns: setCache(url, data) and the return of data
\* (the page is closed in finally)
EvaluateDone(r, ok) ==
  /\ rdpc[r] = "evaluate"
  /\ IF ok
       THEN /\ Log(r, <<"setCache", "return:data">>)
            /\ Goto(r, "done")
            /\ files' = setCache(rdurl[r].href, PageData(rdurl[r].href))
       ELSE Fails(r) /\ UNCHANGED files
  /\ UNCHANGED <<now, limiterVars, cop, rdkind, rdurl, rdbefore>>

IdleReader ==
  /\ rdpc = [r \in Callers |-> "idle"]
  /\ rdkind = [r \in Callers |-> "readPage"]
  /\ rdurl = [r \in Callers |-> HtmlUrl]
  /\ rdlog = [r \in Callers |-> <<>>]
  /\ rdbefore = [r \in Callers |-> [file |-> NoFile, expired |-> FALSE]]

\* the cache as earlier runs left it: per url nothing, a page written just
\* now, or one written longer ago than the ttl
InitReaderFiles ==
  /\ files \in [CacheKeys -> {NoFile} \cup
                 {WrittenAt(u, PageData(u), t) :
                    u \in CacheUrls, t \in {0, 0 - ReadTtl - 1}}]
  /\ \A u \in CacheUrls :
       files[cacheKey(u)].exists => Get(files[cacheKey(u)].data, "url") = Str(u)
  /\ cop = NoCall

NextReader ==
  \/ \E r \in Readers, kind \in ReaderKinds, u \in ReadUrls :
       ReadStart(r, kind, u) /\ FrameReader
  \/ \E r \in Readers, ok \in BOOLEAN : ExtractDone(r, ok) /\ FrameReader
  \/ \E r \in Readers, ok \in BOOLEAN : NewPageDone(r, ok) /\ FrameReader
  \/ \E r \in Readers : SlotReturned(r) /\ FrameReader
  \/ \E r \in Readers, ok \in BOOLEAN : GetBrowserDone(r, ok) /\ FrameReader
  \/ \E r \in Readers, outcome \in {"page", "captcha", "error"} :
       GotoDone(r, outcome) /\ FrameReader
  \/ \E r \in Readers, ok \in BOOLEAN : EvaluateDone(r, ok) /\ FrameReader
  \/ \E r \in Readers : WaitForSlotResume(r) /\ FrameLimiter
  \/ Tick /\ UNCHANGED limiterVars /\ FrameLimiter

\* ----------------------------- deep-research.mjs search jobs (phase 1)

\* the sources a job can be pushed for, and --engine
JobSources == {"web", "twitter", "reddit", "hn", "github"}
Engines == {"google", "bing", "ddg"}

\* the caller of waitForSlot a search job is
JobCaller == 1

\* subQuestions.map(sq => sq.queries[0]): one web query per sub-question
webQueries == DOMAIN decomposeTopic(<<"AI">>)

\* the items a result page can list: none, fewer than limit, more than limit
PageSizes == {0, 2, MaxItems}

\* The urls of the n items the page of query q lists, in page order.  An
\* engine that answers every query with the same pages lists the urls of
\* query 0; otherwise each query has urls of its own.
PageItems(q, n) == [i \in 1..n |-> <<q, i>>]

\* SOURCE_TIMEOUT in units of 100 ms
SourceTimeout == SOURCE_TIMEOUT \div 100

\* the string a source hands to waitForSlot (see SlotArgs)
Domain(labels) ==
  [raw |-> labels, scheme |-> FALSE, valid |-> FALSE, hostname |-> <<>>]

\* searchWeb: waitForSlot('google.com' | 'bing.com' | 'duckduckgo.com')
EngineDomain(engine) ==
  CASE engine = "google" -> <<"google", "com">>
    [] engine = "bing"   -> <<"bing", "com">>
    [] OTHER             -> <<"duckduckgo", "com">>

\* the domain a source calls waitForSlot with; <<>> when it makes no call
SlotDomain(a) ==
  CASE a.source = "web"     -> EngineDomain(a.engine)
    [] a.source = "twitter" -> <<"x", "com">>
    [] a.source = "reddit"  -> <<"reddit", "com">>
    [] OTHER                -> <<>>

\* the site page.goto loads: first the search page of the source, then
\* (strategy 2) the page its fallback loads
GotoDomain(a, strat) ==
  CASE a.source = "web"     -> EngineDomain(a.engine)
    [] a.source = "twitter" -> <<"x", "com">>
    [] a.source = "reddit"  -> <<"reddit", "com">>
    [] a.source = "github"  -> <<"github", "com">>
    [] OTHER -> IF strat = 1 THEN <<"hn", "algolia", "com">>
                             ELSE <<"news", "ycombinator", "com">>

\* searchReddit falls back to the HTML search, searchHN to the front page
HasFallback(a) == a.source \in {"reddit", "hn"}

Ev(ev, domain) == [ev |-> ev, domain |-> domain]

\* return { source, results: results.slice(0, limit), time }
SearchReturn(s, items) ==
  [source |-> s, results |-> Take(items, limit), error |-> "none"]

\* a merge that pushes every item, seen or not
CombineAll(combined, items) == combined \o items

\* for (const item of r.results || []) if (!seen.has(item.url)) { ... push }
RECURSIVE Combine(_, _)
Combine(combined, items) ==
  IF items = <<>> THEN combined
  ELSE Combine(IF \E i \in DOMAIN combined : combined[i] = Head(items)
                 THEN combined
                 ELSE Append(combined, Head(items)),
               Tail(items))

\* combinedResults.slice(0, limit * 2)
SliceCombined(combined, n) == Take(combined, n * 2)

\* the decompose-mode web job runs when decompose && searchQueries.length > 1
IsDecomposeJob(a) == a.source = "web" /\ a.decompose

\* the job settles: the race takes its outcome unless the timer has won
SearchJobSettles(p) ==
  /\ jpc' = "done"
  /\ jrace' = IF jrace.status = "pending" THEN p ELSE jrace

\* Entering searchX(page, query): waitForSlot for the sources that call it,
\* page.goto at once for searchHN and searchGitHub.
EnterSearch ==
  IF SlotDomain(jargs) # <<>>
    THEN /\ Admit(JobCaller, Domain(SlotDomain(jargs)))
         /\ UNCHANGED lcalls
         /\ jpc' = "slot"
         /\ jlog' = jlog \o
              (IF lpc'[JobCaller] = "waiting"
                 THEN <<Ev("suspended", SlotDomain(jargs))>>
                 ELSE <<>>)
    ELSE /\ jpc' = "goto"
         /\ jlog' = Append(jlog, Ev("goto", GotoDomain(jargs, 1)))
         /\ UNCHANGED <<now, limiterVars>>

\* searchJobs.push((async () => { ... })()) and withTimeout(job, label): the
\* job runs up to its first await, browser.context.newPage(), and its timer
\* is set.
StartJob(a) ==
  /\ jpc = "idle"
  /\ jargs' = a
  /\ jpc' = "newPage"
  /\ timerAt' = now + SourceTimeout
  /\ UNCHANGED <<now, limiterVars, jq, strategy, combinedResults, jr, jlog,
                 jfired, jrace, joined, jresults>>

\* await browser.context.newPage() returns; it is outside every try, so its
\* failure rejects the job
NewPageReturns(ok) ==
  /\ jpc = "newPage"
  /\ IF ok
       THEN EnterSearch /\ UNCHANGED jrace
       ELSE /\ SearchJobSettles(Rejected("newPage failed", NoResult))
            /\ UNCHANGED <<now, limiterVars, jlog>>
  /\ strategy' = 1
  /\ UNCHANGED <<jargs, jq, combinedResults, jr, timerAt, jfired, joined,
                 jresults>>

\* await waitForSlot(domain) returns: page.goto of the search page
SlotReturns ==
  /\ jpc = "slot"
  /\ lpc[JobCaller] = "idle"
  /\ jpc' = "goto"
  /\ jlog' = jlog \o <<Ev("admitted", SlotDomain(jargs)),
                       Ev("goto", GotoDomain(jargs, 1))>>
  /\ UNCHANGED <<now, limiterVars, jargs, jq, strategy, combinedResults, jr,
                 timerAt, jfired, jrace, joined, jresults>>

\* searchX returns r: the finally block awaits page.close()
Returns(r) == jr' = r /\ jpc' = "close" /\ UNCHANGED <<strategy, jlog>>

\* the fallback of searchReddit and searchHN: another page.goto
Fallback ==
  /\ strategy' = 2
  /\ jpc' = "goto"
  /\ jlog' = Append(jlog, Ev("goto", GotoDomain(jargs, 2)))
  /\ UNCHANGED jr

\* await page.goto(...) returns or throws.  A throw is caught by the catch
\* of searchX, except in strategy 1 of searchReddit, whose own catch {}
\* falls through to strategy 2.
GotoReturns(ok) ==
  /\ jpc = "goto"
  /\ IF ok
       THEN jpc' = "evaluate" /\ UNCHANGED <<strategy, jr, jlog>>
       ELSE IF jargs.source = "reddit" /\ strategy = 1
         THEN Fallback
         ELSE Returns(SearchCaught(jargs.source))
  /\ UNCHANGED <<now, limiterVars, jargs, jq, combinedResults, timerAt,
                 jfired, jrace, joined, jresults>>

\* await page.evaluate(...) returns the n items of the page: the source
\* returns them sliced, or with none found in strategy 1 falls back
\* (searchReddit: posts.length > 0, searchHN: stories.length === 0)
EvaluateReturns(n) ==
  /\ jpc = "evaluate"
  /\ IF n = 0 /\ HasFallback(jargs) /\ strategy = 1
       THEN Fallback
       ELSE Returns(SearchReturn(jargs.source,
                      PageItems(IF jargs.fresh THEN jq ELSE 0, n)))
  /\ UNCHANGED <<now, limiterVars, jargs, jq, combinedResults, timerAt,
                 jfired, jrace, joined, jresults>>

\* await page.close() returns.  A plain job returns r.  The decompose-mode
\* web job has added the new items of r to combinedResults and goes on to
\* the next query, or after the last returns the combined results sliced.
PageClosed(ok) ==
  LET combined == Combine(combinedResults, Items(jr))
  IN /\ jpc = "close"
     /\ IF ~ok
          THEN /\ SearchJobSettles(Rejected("page.close failed", NoResult))
               /\ UNCHANGED <<jq, combinedResults>>
          ELSE IF ~IsDecomposeJob(jargs)
            THEN /\ SearchJobSettles(Fulfilled(jr))
                 /\ UNCHANGED <<jq, combinedResults>>
            ELSE /\ combinedResults' = combined
                 /\ IF jq < Cardinality(webQueries)
                      THEN /\ jq' = jq + 1
                           /\ jpc' = "newPage"
                           /\ UNCHANGED jrace
                      ELSE /\ SearchJobSettles(Fulfilled(
                                [source |-> "web",
                                 results |-> SliceCombined(combined, limit),
                                 error |-> "none"]))
                           /\ UNCHANGED jq
     /\ UNCHANGED <<now, limiterVars, jargs, strategy, jr, jlog, timerAt,
                    jfired, joined, jresults>>

\* setTimeout(() => reject(new Error(`${label} timed out ...`)), SOURCE_TIMEOUT)
\* is due: the race rejects unless the job has settled it
JobTimerFires ==
  /\ jpc # "idle"
  /\ ~jfired
  /\ now >= timerAt
  /\ jfired' = TRUE
  /\ jrace' = IF jrace.status = "pending"
                THEN Rejected(TimeoutError, NoResult)
                ELSE jrace
  /\ jlog' = IF jrace.status = "pending"
               THEN Append(jlog, Ev("timeout", <<>>))
               ELSE jlog
  /\ UNCHANGED <<now, limiterVars, jargs, jpc, jq, strategy, combinedResults,
                 jr, timerAt, joined, jresults>>

\* await Promise.allSettled(...) resumes and searchResults.forEach runs: a
\* fulfilled value is pushed onto allResults, a rejection is only logged
JobJoin ==
  /\ Settled(jrace)
  /\ ~joined
  /\ joined' = TRUE
  /\ jresults' = IF jrace.status = "fulfilled" THEN <<jrace.value>> ELSE <<>>
  /\ UNCHANGED <<now, limiterVars, jargs, jpc, jq, strategy, combinedResults,
                 jr, jlog, timerAt, jfired, jrace>>

\* the timers that are set and have not run: the setTimeout of a suspended
\* waitForSlot call and the one of withTimeout
Timers ==
  {lwake[c] : c \in {k \in Callers : lpc[k] = "waiting"}}
    \cup (IF jpc # "idle" /\ ~jfired THEN {timerAt} ELSE {})

\* Date.now() advances to the instant the next timer is due, while the job
\* is suspended in waitForSlot or awaits the browser; time that passes in
\* the browser is logged as "slow".  No timer is due already, and the
\* continuation of a waitForSlot call that has returned runs before the
\* clock moves.
Elapse ==
  /\ Timers # {}
  /\ \A t \in Timers : t > now
  /\ \/ /\ jpc \in {"newPage", "goto", "evaluate", "close"}
        /\ jlog' = Append(jlog, Ev("slow", <<>>))
     \/ /\ jpc = "slot" /\ lpc[JobCaller] = "waiting"
        /\ UNCHANGED jlog
  /\ now' = CHOOSE t \in Timers : \A u \in Timers : t <= u
  /\ UNCHANGED <<limiterVars, jargs, jpc, jq, strategy, combinedResults, jr,
                 timerAt, jfired, jrace, joined, jresults>>

NoArgs == [source |-> "none", decompose |-> FALSE, engine |-> "ddg",
           fresh |-> FALSE]

IdleJob ==
  /\ jargs = NoArgs
  /\ jpc = "idle"
  /\ jq = 1
  /\ strategy = 1
  /\ combinedResults = <<>>
  /\ jr = NoResult
  /\ jlog = <<>>
  /\ timerAt = 0
  /\ jfired = FALSE
  /\ jrace = Pending(NoResult)
  /\ joined = FALSE
  /\ jresults = <<>>

\* the jobs a run can push: the sources other than web take no engine
JobArgs ==
  {a \in [source : JobSources, decompose : BOOLEAN, engine : Engines,
          fresh : BOOLEAN] :
     a.source # "web" => a.engine = "ddg" /\ ~a.fresh}

NextJob ==
  \/ \E a \in JobArgs : StartJob(a) /\ FrameJob
  \/ \E ok \in BOOLEAN : NewPageReturns(ok) /\ FrameJob
  \/ SlotReturns /\ FrameJob
  \/ \E ok \in BOOLEAN : GotoReturns(ok) /\ FrameJob
  \/ \E n \in PageSizes : EvaluateReturns(n) /\ FrameJob
  \/ \E ok \in BOOLEAN : PageClosed(ok) /\ FrameJob
  \/ JobTimerFires /\ FrameJob
  \/ JobJoin /\ FrameJob
  \/ WaitForSlotResume(JobCaller) /\ UNCHANGED jobVars /\ FrameJob
  \/ Elapse /\ FrameJob

\* ------------------------------------------------------------- server.mjs

MaxRequests == 3    \* requests the server is sent in one run
MaxChecks == 3      \* doCheck calls of one watch run

\* config.serverAuthToken: null, or the token the server is started with
NoToken == [set |-> FALSE, value |-> ""]
Token(v) == [set |-> TRUE, value |-> v]

\* the Authorization header of a request: absent, the Bearer form of the
\* token, another Bearer token, the token without the Bearer prefix
AuthHeaders ==
  {<<>>, <<"Bearer", "test-token-123">>, <<"Bearer", "wrong">>,
   <<"test-token-123">>}

Paths == {"/search", "/fetch", "/status", "/stop", "/nowhere"}

\* a request: method, url.pathname, whether the q / url parameter is given,
\* and the Authorization header
Requests ==
  {r \in [method : {"GET", "POST"}, path : Paths, param : BOOLEAN,
          authorization : AuthHeaders] :
     r.param => r.path \in {"/search", "/fetch"}}

\* the response: res.statusCode (200 unless writeHead is called) and the
\* status or error field of the JSON body
Response(code, body) == [code |-> code, body |-> body]

\* what the handler answers to req; outcome is how handleSearch /
\* handleFetch end ("ok" or "throw")
Answer(req, outcome) ==
  CASE req.path \in {"/search", "/fetch"} ->
         IF ~req.param THEN Response(400, "missing param")
         ELSE IF outcome = "throw" THEN Response(500, "e.message")
         ELSE Response(200, "results")
    [] req.path = "/status" -> Response(200, "running")
    [] req.path = "/stop" /\ req.method = "POST" -> Response(200, "stopping")
    [] OTHER -> Response(404, "not found")

NoExchange ==
  [request |-> [method |-> "none", path |-> "none", param |-> FALSE,
                authorization |-> <<>>],
   response |-> Response(0, "none"),
   found |-> [requestCount |-> 0, browser |-> FALSE]]

\* The request handler of http.createServer: it counts the request and
\* dispatches on the path.  /search and /fetch launch the browser on their
\* first use; POST /stop answers, closes the browser and exits.
Handle(req, outcome) ==
  /\ listening
  /\ requestCount < MaxRequests
  /\ outcome = "throw" => req.param
  /\ requestCount' = requestCount + 1
  /\ browser' = IF req.path = "/stop" /\ req.method = "POST" THEN FALSE
                ELSE IF req.param /\ outcome = "ok" THEN TRUE
                ELSE browser
  /\ listening' = ~(req.path = "/stop" /\ req.method = "POST")
  /\ exchange' = [request |-> req,
                  response |-> Answer(req, outcome),
                  found |-> [requestCount |-> requestCount,
                             browser |-> browser]]
  /\ UNCHANGED serverAuthToken

IdleServer ==
  /\ serverAuthToken = NoToken
  /\ requestCount = 0
  /\ browser = FALSE
  /\ listening = FALSE
  /\ exchange = NoExchange

\* server.listen(PORT): started without a token or with one
InitServer ==
  /\ serverAuthToken \in {NoToken, Token("test-token-123")}
  /\ requestCount = 0
  /\ browser = FALSE
  /\ listening = TRUE
  /\ exchange = NoExchange

NextServer ==
  \E req \in Requests, outcome \in {"ok", "throw"} :
    Handle(req, outcome) /\ FrameServer

\* --------------------------------------------------------- fingerprint.mjs

\* A 32-bit integer is the pair <<high 16 bits, low 16 bits>> of its two's
\* complement form, so that no intermediate result leaves the integers the
\* checker can hold.  `x | 0` and `x >>> 0` leave the pair as it is.
Hi(w) == w[1]
Lo(w) == w[2]
Word(hi, lo) == <<hi % 65536, lo % 65536>>

\* a + b (mod 2^32)
Add(a, b) ==
  Word(Hi(a) + Hi(b) + (Lo(a) + Lo(b)) \div 65536, Lo(a) + Lo(b))

\* -a (mod 2^32)
Neg(a) == Add(<<65535 - Hi(a), 65535 - Lo(a)>>, <<0, 1>>)

\* a << 5
Shl5(a) == Word(Hi(a) * 32 + Lo(a) \div 2048, Lo(a) * 32)

\* a >>> k for 0 < k < 16
Shr(a, k) ==
  <<Hi(a) \div (2 ^ k), (Hi(a) % (2 ^ k)) * (2 ^ (16 - k)) + Lo(a) \div (2 ^ k)>>

RECURSIVE Xor16(_, _)
Xor16(x, y) ==
  IF x = 0 /\ y = 0 THEN 0
  ELSE ((x + y) % 2) + 2 * Xor16(x \div 2, y \div 2)

RECURSIVE Or16(_, _)
Or16(x, y) ==
  IF x = 0 /\ y = 0 THEN 0
  ELSE (IF x % 2 = 1 \/ y % 2 = 1 THEN 1 ELSE 0) + 2 * Or16(x \div 2, y \div 2)

\* a ^ b and a | b
Xor(a, b) == <<Xor16(Hi(a), Hi(b)), Xor16(Lo(a), Lo(b))>>
Or(a, b) == <<Or16(Hi(a), Hi(b)), Or16(Lo(a), Lo(b))>>

\* x * y (mod 2^16) and x * y as a 32-bit integer, for x, y < 2^16
Mul16(x, y) == ((x % 256) * y + (((x \div 256) * y) % 256) * 256) % 65536
Mul32(x, y) ==
  LET p0 == (x % 256) * y
      p1 == (x \div 256) * y
  IN Add(<<p0 \div 65536, p0 % 65536>>, <<p1 \div 256, (p1 % 256) * 256>>)

\* Math.imul(a, b)
Imul(a, b) ==
  Add(Mul32(Lo(a), Lo(b)),
      <<(Mul16(Hi(a), Lo(b)) + Mul16(Lo(a), Hi(b))) % 65536, 0>>)

\* str.charCodeAt(i) of the strings used as seeds
CharCodes(str) ==
  CASE str = "x-com"      -> <<120, 45, 99, 111, 109>>
    [] str = "reddit-com" -> <<114, 101, 100, 100, 105, 116, 45, 99, 111, 109>>
    [] str = "Aa"         -> <<65, 97>>
    [] str = "BB"         -> <<66, 66>>
    [] str = "a"          -> <<97>>
    [] OTHER              -> <<>>

\* hash = ((hash << 5) - hash + str.charCodeAt(i)) | 0, over the characters
\* (Len(next) = 2 always holds: the test has next computed before the next
\* round starts)
RECURSIVE HashLoop(_, _)
HashLoop(hash, codes) ==
  IF codes = <<>> THEN hash
  ELSE LET next == Add(Add(Shl5(hash), Neg(hash)), <<0, Head(codes)>>)
       IN IF Len(next) = 2 THEN HashLoop(next, Tail(codes)) ELSE next

\* Math.abs(hash), taken | 0 by mulberry32
Abs(hash) == IF Hi(hash) >= 32768 THEN Neg(hash) ELSE hash

seedHash(str) == Abs(HashLoop(<<0, 0>>, CharCodes(str)))

\* The closure mulberry32 returns, called n times from state s: the 32-bit
\* numerators of the values it returns (each is divided by 4294967296).
RECURSIVE mulberry32(_, _)
mulberry32(s, n) ==
  IF n = 0 THEN <<>>
  ELSE LET s1 == Add(s, <<27947, 31221>>)  \* 0x6D2B79F5
           t1 == Imul(Xor(s1, Shr(s1, 15)), Or(<<0, 1>>, s1))
           t2 == Xor(Add(t1, Imul(Xor(t1, Shr(t1, 7)), Or(<<0, 61>>, t1))), t1)
       IN <<Xor(t2, Shr(t2, 14))>> \o mulberry32(s1, n - 1)

\* the number of values generateFingerprint draws from its rng
Draws == 11

\* a seed: null, or a string
NoSeed == [null |-> TRUE, str |-> ""]
Seed(str) == [null |-> FALSE, str |-> str]

\* an rng that draws from Math.random whatever the seed
createRngRandom(seed, random) == random

\* createRng(seed): the values the rng will return, as 32-bit numerators:
\* those of Math.random (random) for a null seed, else those of
\* mulberry32(seedHash(String(seed)))
createRng(seed, random) ==
  IF seed.null THEN random ELSE mulberry32(seedHash(seed.str), Draws)

\* Math.floor(x * n) for the value x with numerator w
Scale(w, n) == (Hi(w) * n + (Lo(w) * n) \div 65536) \div 65536

\* rng.pick(arr), rng.rand(a, b), and rng.float() through
\* parseFloat((x * 0.0001).toFixed(8)), in units of 0.00000001
pick(arr, w) == arr[Scale(w, Len(arr)) + 1]
rand(a, b, w) == Scale(w, b - a + 1) + a
AudioNoise(w) ==
  (Hi(w) * 10000 + 32768 + (Lo(w) * 10000) \div 65536) \div 65536

GPU_RENDERERS ==
  <<"ANGLE (NVIDIA GeForce GTX 1080 Ti Direct3D11 vs_5_0 ps_5_0)",
    "ANGLE (NVIDIA GeForce RTX 3060 Direct3D11 vs_5_0 ps_5_0)",
    "ANGLE (NVIDIA GeForce RTX 4070 Direct3D11 vs_5_0 ps_5_0)",
    "ANGLE (AMD Radeon RX 6800 XT Direct3D11 vs_5_0 ps_5_0)",
    "ANGLE (Intel(R) UHD Graphics 770 Direct3D11 vs_5_0 ps_5_0)",
    "ANGLE (Apple M2 Pro)",
    "ANGLE (AMD Radeon Pro 5500M OpenGL Engine)">>

GPU_VENDORS ==
  <<"Google Inc. (NVIDIA)", "Google Inc. (AMD)", "Google Inc. (Intel)",
    "Google Inc. (Apple)">>

PLATFORM_COMBOS ==
  <<[platform |-> "Win32", oscpu |-> "Windows NT 10.0; Win64; x64"],
    [platform |-> "MacIntel", oscpu |-> "Intel Mac OS X 10_15_7"],
    [platform |-> "MacIntel", oscpu |-> "Apple M2"],
    [platform |-> "Linux x86_64", oscpu |-> "Linux x86_64"]>>

FONT_SETS ==
  <<<<"Arial", "Verdana", "Times New Roman", "Georgia", "Courier New",
      "Trebuchet MS", "Impact">>,
    <<"Arial", "Helvetica", "Times New Roman", "Courier", "Verdana",
      "Georgia", "Palatino">>,
    <<"Segoe UI", "Arial", "Verdana", "Tahoma", "Times New Roman",
      "Courier New", "Lucida Console">>,
    <<"San Francisco", "Helvetica Neue", "Arial", "Times", "Courier",
      "Georgia", "Menlo">>,
    <<"Roboto", "Arial", "Noto Sans", "DejaVu Sans", "Liberation Serif",
      "Courier New", "Ubuntu">>>>

LANGS ==
  <<<<"en-US", "en">>, <<"en-GB", "en">>, <<"en-US", "en", "fr">>,
    <<"en-US", "en", "de">>, <<"en-US", "en", "es">>>>

TIMEZONES ==
  <<"America/New_York", "America/Los_Angeles", "America/Chicago",
    "Europe/London", "Europe/Berlin">>

\* generateFingerprint(seed); random is what Math.random would return.  The
\* rng values are consumed in the order the code evaluates its calls.
generateFingerprint(seed, random) ==
  LET rng == createRng(seed, random)
      platformCombo == pick(PLATFORM_COMBOS, rng[1])
  IN [seed |-> seed,
      timezone |-> pick(TIMEZONES, rng[3]),
      platform |-> platformCombo.platform,
      oscpu |-> platformCombo.oscpu,
      canvasNoiseBits |-> rand(1, 3, rng[2]),
      audioNoise |-> AudioNoise(rng[4]),
      webglRenderer |-> pick(GPU_RENDERERS, rng[5]),
      webglVendor |-> pick(GPU_VENDORS, rng[6]),
      fonts |-> pick(FONT_SETS, rng[7]),
      langs |-> pick(LANGS, rng[8]),
      hardwareConcurrency |-> pick(<<2, 4, 6, 8, 12, 16>>, rng[9]),
      deviceMemory |-> pick(<<2, 4, 8, 16>>, rng[10]),
      maxTouchPoints |-> pick(<<0, 0, 0, 1, 5, 10>>, rng[11])]

\* the seeds handed to generateFingerprint: profile names, two strings with
\* the same seedHash ("Aa", "BB"), the empty string, and null
Seeds ==
  {NoSeed} \cup {Seed(str) : str \in {"x-com", "reddit-com", "Aa", "BB", "a", ""}}

\* what Math.random returns during one call, as 32-bit numerators
RandomStreams ==
  {[k \in 1..Draws |-> <<0, 0>>],
   [k \in 1..Draws |-> <<40000 + k, 12345>>]}

\* one call of generateFingerprint; the model makes up to three in a row
FingerprintCall(seed, random) ==
  /\ Len(fcalls) < 3
  /\ fcalls' = Append(fcalls, [seed |-> seed,
                               out |-> generateFingerprint(seed, random)])

IdleFingerprint == fcalls = <<>>

NextFingerprint ==
  \E seed \in Seeds, random \in RandomStreams :
    FingerprintCall(seed, random) /\ FrameFingerprint

\* ------------------------------------------- server.mjs getBrowser, requests

\* the requests that reach getBrowser(): /search with q, /fetch with a url
\* that is not cached (after its waitForSlot)
BrowserRequests == 1..MaxRequests
BrowserPaths == {"/search", "/fetch"}

\* `if (browser) return browser;`: getBrowser launches while `browser` is null
LaunchNeeded(b) == b = 0

\* a request arrives and its handler runs to its first await in getBrowser():
\* `if (browser) return browser;` or the call of launch()
GetBrowserCall(r, path) ==
  /\ gpc[r] = "idle"
  /\ gpath' = [gpath EXCEPT ![r] = path]
  /\ IF LaunchNeeded(persistent)
       THEN /\ launches' = launches + 1
            /\ gpc' = [gpc EXCEPT ![r] = "launching"]
            /\ gusing' = [gusing EXCEPT ![r] = launches + 1]
       ELSE /\ gpc' = [gpc EXCEPT ![r] = "using"]
            /\ gusing' = [gusing EXCEPT ![r] = persistent]
            /\ UNCHANGED launches
  /\ UNCHANGED persistent

\* `browser = await launch()` resumes: the assignment and `return browser`,
\* or the rejection, which the request handler answers with 500
LaunchReturns(r, ok) ==
  /\ gpc[r] = "launching"
  /\ IF ok
       THEN /\ persistent' = gusing[r]
            /\ gpc' = [gpc EXCEPT ![r] = "using"]
            /\ UNCHANGED gusing
       ELSE /\ gpc' = [gpc EXCEPT ![r] = "failed"]
            /\ gusing' = [gusing EXCEPT ![r] = 0]
            /\ UNCHANGED persistent
  /\ UNCHANGED <<launches, gpath>>

\* the handler is through with the page it opened in its browser
RequestAnswered(r) ==
  /\ gpc[r] = "using"
  /\ gpc' = [gpc EXCEPT ![r] = "answered"]
  /\ UNCHANGED <<persistent, launches, gpath, gusing>>

IdleLaunch ==
  /\ persistent = 0
  /\ launches = 0
  /\ gpc = [r \in BrowserRequests |-> "idle"]
  /\ gpath = [r \in BrowserRequests |-> "/search"]
  /\ gusing = [r \in BrowserRequests |-> 0]

NextLaunch ==
  \/ \E r \in BrowserRequests, path \in BrowserPaths :
       GetBrowserCall(r, path) /\ FrameLaunch
  \/ \E r \in BrowserRequests, ok \in BOOLEAN : LaunchReturns(r, ok) /\ FrameLaunch
  \/ \E r \in BrowserRequests : RequestAnswered(r) /\ FrameLaunch

\* ---------------------------------------------------------------- watch.mjs

WatchUrl == "https://example.org/status"

\* what checkPage can find on the page: the text, and content.slice(0, 500),
\* which is the text itself unless it is longer than 500 characters
WatchContents ==
  { [text |-> "price 10", first500 |-> "price 10"],
    [text |-> "price 12", first500 |-> "price 12"],
    [text |-> "", first500 |-> ""],
    [text |-> "x repeated 600 times", first500 |-> "x repeated 500 times"] }

NoContent == [text |-> "none", first500 |-> "none"]

\* createHash('md5').update(content).digest('hex')
md5(content) ==
  CASE content.text = "price 10" -> "bdee46ae5256888d6d1d6675f880af8b"
    [] content.text = "price 12" -> "170893a51185b04f0f453c2c97c80999"
    [] content.text = "" -> "d41d8cd98f00b204e9800998ecf8427e"
    [] OTHER -> "2bfac1bb871236a26c9bbc8389d00b83"

\* the state file: absent, or the text written to it
NoState == [exists |-> FALSE, text |-> [ok |-> FALSE, pairs |-> <<>>]]
CorruptState == [exists |-> TRUE, text |-> [ok |-> FALSE, pairs |-> <<>>]]

\* a setState that leaves the file as it is
setStateKept(file, url, content, hash) == file

\* setState(url, content, hash): the file it leaves
setState(file, url, content, hash) ==
  [exists |-> TRUE,
   text |-> JSON_stringify(<<<<"url", Str(url)>>, <<"hash", Str(hash)>>,
                             <<"checkedAt", Iso(now)>>,
                             <<"contentPreview", Str(content.first500)>>>>)]

\* getState(url): null when the file does not exist, else JSON.parse of its
\* text, which throws when the text is not JSON
getState(file) ==
  IF ~file.exists THEN [threw |-> FALSE, value |-> Null]
  ELSE IF file.text.ok
    THEN [threw |-> FALSE, value |-> Obj(JSON_parse(file.text))]
    ELSE [threw |-> TRUE, value |-> Null]

NoReturn == [returned |-> FALSE, changed |-> FALSE, first |-> FALSE]
CheckResult(changed, first) == [returned |-> TRUE, changed |-> changed, first |-> first]

Checks == 1..MaxChecks

\* doCheck() is called and runs to `await checkPage(...)`: the first call by
\* the main script, each later one by the setInterval timer, which fires
\* whether or not the call before it has returned.  Without --once the timer
\* is set only after the first doCheck has returned; with --once there is one
\* call.
DoCheckCall(k) ==
  /\ wpc[k] = "idle"
  /\ k > 1 => (~once /\ wpc[1] = "done" /\ wpc[k - 1] # "idle")
  /\ wpc' = [wpc EXCEPT ![k] = "checkPage"]
  /\ UNCHANGED <<wfile, once, wfetched, wresult>>

\* checkPage rejects (waitForSlot, newPage, goto or evaluate failed): doCheck
\* rejects with it and the state file is not touched
CheckPageThrows(k) ==
  /\ wpc[k] = "checkPage"
  /\ wpc' = [wpc EXCEPT ![k] = "failed"]
  /\ UNCHANGED <<wfile, once, wfetched, wresult>>

\* checkPage resolves with { content, hash }; the rest of doCheck runs without
\* a further await: getState, the comparison, setState, the return.
CheckPageReturns(k, content) ==
  LET hash == md5(content)
      prev == getState(wfile)
  IN /\ wpc[k] = "checkPage"
     /\ wfetched' = [wfetched EXCEPT ![k] = content]
     /\ UNCHANGED once
     /\ IF prev.threw
          THEN /\ wpc' = [wpc EXCEPT ![k] = "failed"]
               /\ UNCHANGED <<wfile, wresult>>
          ELSE /\ wpc' = [wpc EXCEPT ![k] = "done"]
               /\ IF prev.value.null
                    THEN /\ wfile' = setState(wfile, WatchUrl, content, hash)
                         /\ wresult' = [wresult EXCEPT ![k] = CheckResult(FALSE, TRUE)]
                    ELSE IF Get(prev.value.obj, "hash") # Str(hash)
                      THEN /\ wfile' = setState(wfile, WatchUrl, content, hash)
                           /\ wresult' = [wresult EXCEPT ![k] = CheckResult(TRUE, FALSE)]
                      ELSE /\ UNCHANGED wfile
                           /\ wresult' = [wresult EXCEPT ![k] = CheckResult(FALSE, FALSE)]

IdleWatch ==
  /\ wfile = NoState
  /\ once = TRUE
  /\ wpc = [k \in Checks |-> "idle"]
  /\ wfetched = [k \in Checks |-> NoContent]
  /\ wresult = [k \in Checks |-> NoReturn]

\* the state file as earlier runs left it: absent, written by a check of the
\* same url, or unreadable
InitWatch ==
  /\ wfile \in {NoState, CorruptState}
                 \cup {setState(NoState, WatchUrl, c, md5(c)) : c \in WatchContents}
  /\ once \in BOOLEAN
  /\ wpc = [k \in Checks |-> "idle"]
  /\ wfetched = [k \in Checks |-> NoContent]
  /\ wresult = [k \in Checks |-> NoReturn]

NextWatch ==
  \/ \E k \in Checks : DoCheckCall(k) /\ FrameWatch
  \/ \E k \in Checks : CheckPageThrows(k) /\ FrameWatch
  \/ \E k \in Checks, content \in WatchContents :
       CheckPageReturns(k, content) /\ FrameWatch

\* ------------------------------------------------------------ specifications

InitSpecLimiter ==
  now = 0 /\ InitLimiter /\ IdleRetry /\ IdleResearch /\ IdleCache /\ IdleReader
    /\ IdleAnalysis
    /\ IdleDecompose
    /\ IdleJob
    /\ IdleServer
    /\ IdleFingerprint
    /\ IdleLaunch
    /\ IdleWatch

SpecLimiter == InitSpecLimiter /\ [][NextLimiter]_vars

\* the clock advances and a timer that is due fires
FairLimiter ==
  /\ WF_vars(Tick /\ UNCHANGED limiterVars /\ FrameLimiter)
  /\ \A c \in Callers : WF_vars(WaitForSlotResume(c) /\ FrameLimiter)

FairSpecLimiter == SpecLimiter /\ FairLimiter

InitSpecRetry ==
  now = 0 /\ InitLimiter /\ InitRetry /\ IdleResearch /\ IdleCache /\ IdleReader
    /\ IdleAnalysis
    /\ IdleDecompose
    /\ IdleJob
    /\ IdleServer
    /\ IdleFingerprint
    /\ IdleLaunch
    /\ IdleWatch

SpecRetry == InitSpecRetry /\ [][NextRetry]_vars

InitSpecResearch ==
  now = 0 /\ InitLimiter /\ IdleRetry /\ InitResearch /\ IdleCache /\ IdleReader
    /\ IdleAnalysis
    /\ IdleDecompose
    /\ IdleJob
    /\ IdleServer
    /\ IdleFingerprint
    /\ IdleLaunch
    /\ IdleWatch

SpecResearch == InitSpecResearch /\ [][NextResearch]_vars

\* Timers fire, settled promises run their continuations, and page reads
\* and browser.close() return; a search job may stay pending for ever.
FairResearch ==
  /\ WF_vars(DeadlineReached /\ FrameResearch)
  /\ \A s \in SourceNames : WF_vars(TimerFires(s) /\ FrameResearch)
  /\ WF_vars(Join /\ FrameResearch)
  /\ WF_vars(\E k \in DOMAIN reads : \E p \in ReadOutcomes(k) :
               ReadSettles(k, p) /\ FrameResearch)
  /\ WF_vars(LoopStep /\ FrameResearch)
  /\ WF_vars(CloseAndOutput /\ FrameResearch)

FairSpecResearch == SpecResearch /\ FairResearch

InitSpecCache ==
  now = 0 /\ InitLimiter /\ IdleRetry /\ IdleResearch /\ InitCache /\ IdleReader
    /\ IdleAnalysis
    /\ IdleDecompose
    /\ IdleJob
    /\ IdleServer
    /\ IdleFingerprint
    /\ IdleLaunch
    /\ IdleWatch

SpecCache == InitSpecCache /\ [][NextCache]_vars

InitSpecReader ==
  now = 0 /\ InitLimiter /\ IdleRetry /\ IdleResearch /\ InitReaderFiles
    /\ IdleReader
    /\ IdleAnalysis
    /\ IdleDecompose
    /\ IdleJob
    /\ IdleServer
    /\ IdleFingerprint
    /\ IdleLaunch
    /\ IdleWatch

SpecReader == InitSpecReader /\ [][NextReader]_vars

InitSpecAnalysis ==
  now = 0 /\ InitLimiter /\ IdleRetry /\ IdleResearch /\ IdleCache
    /\ IdleReader /\ IdleAnalysis
    /\ IdleDecompose
    /\ IdleJob
    /\ IdleServer
    /\ IdleFingerprint
    /\ IdleLaunch
    /\ IdleWatch

SpecAnalysis == InitSpecAnalysis /\ [][NextAnalysis]_vars

InitSpecDecompose ==
  now = 0 /\ InitLimiter /\ IdleRetry /\ IdleResearch /\ IdleCache
    /\ IdleReader /\ IdleAnalysis /\ IdleDecompose
    /\ IdleJob
    /\ IdleServer
    /\ IdleFingerprint
    /\ IdleLaunch
    /\ IdleWatch

SpecDecompose == InitSpecDecompose /\ [][NextDecompose]_vars

InitSpecJob ==
  now = 0 /\ InitLimiter /\ IdleRetry /\ IdleResearch /\ IdleCache
    /\ IdleReader /\ IdleAnalysis /\ IdleDecompose /\ IdleJob
    /\ IdleServer
    /\ IdleFingerprint
    /\ IdleLaunch
    /\ IdleWatch

SpecJob == InitSpecJob /\ [][NextJob]_vars

InitSpecServer ==
  now = 0 /\ InitLimiter /\ IdleRetry /\ IdleResearch /\ IdleCache
    /\ IdleReader /\ IdleAnalysis /\ IdleDecompose /\ IdleJob /\ InitServer
    /\ IdleFingerprint
    /\ IdleLaunch
    /\ IdleWatch

SpecServer == InitSpecServer /\ [][NextServer]_vars

InitSpecFingerprint ==
  now = 0 /\ InitLimiter /\ IdleRetry /\ IdleResearch /\ IdleCache
    /\ IdleReader /\ IdleAnalysis /\ IdleDecompose /\ IdleJob /\ IdleServer
    /\ IdleFingerprint
    /\ IdleLaunch
    /\ IdleWatch

SpecFingerprint == InitSpecFingerprint /\ [][NextFingerprint]_vars

SpecSequential == InitSpecLimiter /\ [][NextSequential]_vars

InitSpecLaunch ==
  now = 0 /\ InitLimiter /\ IdleRetry /\ IdleResearch /\ IdleCache /\ IdleReader
    /\ IdleAnalysis
    /\ IdleDecompose
    /\ IdleJob
    /\ IdleServer
    /\ IdleFingerprint
    /\ IdleLaunch
    /\ IdleWatch

SpecLaunch == InitSpecLaunch /\ [][NextLaunch]_vars

InitSpecWatch ==
  now = 0 /\ InitLimiter /\ IdleRetry /\ IdleResearch /\ IdleCache /\ IdleReader
    /\ IdleAnalysis
    /\ IdleDecompose
    /\ IdleJob
    /\ IdleServer
    /\ IdleFingerprint
    /\ IdleLaunch
    /\ InitWatch

SpecWatch == InitSpecWatch /\ [][NextWatch]_vars

\* ------------------------------------------------------------------ C1

\* the timestamps of `log` inside the closed window [t - perMs, t]
InWindow(log, t, perMs) ==
  Cardinality({i \in 1..Len(log) : t - perMs <= log[i] /\ log[i] <= t})

\* C1: for every resource key, at every instant, the number of recorded
\* timestamps t with now - W <= t <= now is at most R, under any interleaving
\* of waitForSlot calls on that key.
C1_AdmissionInvariant ==
  \A d \in DOMAIN requestLog :
    InWindow(requestLog[d], now, getLimit(d).perMs) <= getLimit(d).requests

\* ------------------------------------------------------------------ C2

\* the entries of allResults for source s
EntriesOf(s) == {i \in 1..Len(allResults) : allResults[i].source = s}

\* C2: the join returns exactly one SourceResult per submitted job: a job
\* that throws or exceeds its deadline is represented by an entry with empty
\* results and a populated error (never omitted), and a job that succeeds
\* has no error.
C2_OneResultPerJob ==
  phase # "search" =>
    /\ Len(allResults) = Cardinality(sources)
    /\ \A s \in sources :
         /\ Cardinality(EntriesOf(s)) = 1
         /\ \A i \in EntriesOf(s) :
              IF race[s].status = "fulfilled" /\ race[s].value.error = "none"
                THEN allResults[i] = race[s].value
                ELSE allResults[i].results = <<>> /\ allResults[i].error # "none"

\* ------------------------------------------------------------------ C3

\* C3: a source job that throws, hangs or times out neither cancels nor
\* changes the result of a sibling job (what is recorded for a job is its own
\* producer's value, or its own timeout), and the join returns only after
\* every job has settled or reached its own deadline.
C3_JoinWaitsForAll ==
  /\ phase # "search" =>
       \A s \in sources : Settled(job[s]) \/ timerFired[s]
  /\ \A s \in sources :
       /\ race[s].status = "fulfilled" => race[s] = job[s]
       /\ race[s].status = "rejected" =>
            \/ race[s] = job[s]
            \/ race[s].reason = TimeoutError /\ timerFired[s]
       /\ (phase # "search" /\ race[s].status = "fulfilled") =>
            \E i \in 1..Len(allResults) : allResults[i] = job[s].value

\* the join has returned with one job rejected, one timed out or hung, and a
\* sibling's results recorded
C3_Witness ==
  /\ phase # "search"
  /\ \E s \in sources :
       /\ race[s].status = "rejected"
       /\ \E t \in sources :
            /\ t # s
            /\ race[t].status = "fulfilled"
            /\ Len(race[t].value.results) > 0
            /\ \E i \in 1..Len(allResults) : allResults[i] = race[t].value

\* ------------------------------------------------------------------ C4

\* every source failed: its job threw, timed out, or returned an error entry
AllSourcesFailed ==
  \A s \in sources :
    race[s].status = "rejected" \/ race[s].value.error # "none"

AllFailedIsLow ==
  (phase = "output" /\ AllSourcesFailed) =>
    /\ \A i \in 1..Len(allResults) : allResults[i].results = <<>>
    /\ reads = <<>>
    /\ pageContents = <<>>
    /\ confidence.level = "LOW"

\* C4: a research run always reaches its output phase, whatever subset of
\* source producers fail, hang for ever or time out; when every source fails
\* the session holds no non-empty results, no page read is attempted and
\* confidence.level is LOW.
C4_AlwaysReachesOutput == <>(phase = "output") /\ []AllFailedIsLow

\* ----------------------------------------------------------------- C10

\* the chunk (0-based) that the k-th URL belongs to for chunk size n
ChunkOf(k, n) == (k - 1) \div n

InFlight == {k \in DOMAIN reads : reads[k].status = "pending"}

Started == {k \in DOMAIN reads : reads[k].status # "notstarted"}

\* C10: for concurrency N >= 1 page reads are processed in consecutive
\* chunks of at most N URLs: a read of a later chunk is not started before
\* every read of each earlier chunk has settled, reads start in URL order,
\* and at most N page reads are in flight at any time.
C10_ChunkedReads ==
  (concurrency.t = "num" /\ concurrency.n >= 1) =>
    /\ Cardinality(InFlight) <= concurrency.n
    /\ \A j \in Started : \A k \in DOMAIN reads :
         /\ k < j => k \in Started
         /\ ChunkOf(k, concurrency.n) < ChunkOf(j, concurrency.n)
              => Settled(reads[k])

\* the second chunk of a run with concurrency 2 is in flight after both
\* reads of the first chunk settled
C10_Witness ==
  /\ concurrency = Num(2)
  /\ Len(reads) = 3
  /\ reads[3].status = "pending"
  /\ Settled(reads[1]) /\ Settled(reads[2])
  /\ ri = Num(2)

\* ------------------------------------------------------------------ C8

\* the last call was getCached on an entry that setCache wrote
GotWrittenEntry == cop.op = "get" /\ cop.before.exists /\ cop.before.text.ok

AgeOfEntry == cop.at - cop.before.mtime

\* deep equality of two objects: the same keys with the same values
ObjEq(a, b) ==
  Keys(a) = Keys(b) /\ \A k \in Keys(a) : Get(a, k) = Get(b, k)

ExpiredEntryDeleted ==
  /\ cop.value.null
  /\ cop.surfaced.null
  /\ ~files[cacheKey(cop.url)].exists

RoundTripWithMetadata ==
  GotWrittenEntry =>
    IF AgeOfEntry <= cop.ttl
      THEN LET d == cop.before.data
               v == cop.value.obj
           IN /\ ~cop.value.null
              /\ Keys(v) = Keys(d) \cup {"url", "cachedAt"}
              /\ \A k \in Keys(d) : Get(v, k) = Get(d, k)
              /\ "url" \notin Keys(d) => Get(v, "url") = Str(cop.url)
              /\ "cachedAt" \notin Keys(d)
                   => Get(v, "cachedAt") = Iso(cop.before.mtime)
              /\ ObjEq(cop.surfaced.obj, Assign(v, "fromCache", True))
              /\ files[cacheKey(cop.url)] = cop.before
      ELSE ExpiredEntryDeleted

\* an absent entry appears only by a setCache of its url
StaysAbsentUntilSet ==
  \A k \in CacheKeys :
    (~files[k].exists /\ files'[k].exists)
      => (cop'.op = "set" /\ cacheKey(cop'.url) = k)

Has(L, e) == \E i \in DOMAIN L : L[i] = e

Before(L, a, b) ==
  \A i \in DOMAIN L : L[i] = b => \E j \in 1..(i - 1) : L[j] = a

\* C9: every page read consults the cache first; on a valid hit no
\* admission slot is consumed and no navigation is issued; on a miss the read
\* is admitted by the limiter before it goes to the network for the page (the
\* browser navigation, or the download of a PDF), and a fetched page is
\* written to the cache before the read returns it.
C9_CacheThenAdmitThenFetch ==
  \A r \in Readers :
    LET L == rdlog[r]
    IN /\ L # <<>> => L[1] \in {"getCached:hit", "getCached:miss"}
       /\ Has(L, "getCached:hit") => L = <<"getCached:hit", "return:cached">>
       /\ Before(L, "getCached:miss", "waitForSlot")
       /\ Before(L, "waitForSlot", "admitted")
       /\ Before(L, "admitted", "goto")
       /\ Before(L, "admitted", "extract")
       /\ Before(L, "setCache", "return:data")
       /\ (rdpc[r] = "done" /\ Has(L, "return:data")) =>
            files[cacheKey(rdurl[r].href)].exists

\* ----------------------------------------------------------------- C11

\* C11: a failing page read never aborts the batch: once the page reader is
\* done there is exactly one PageResult per requested URL, in request order,
\* and the entry of a failed read has error = true.
C11_OnePageResultPerUrl ==
  phase \in {"closing", "output"} =>
    /\ Len(pageContents) = Len(urlsToRead)
    /\ \A k \in DOMAIN pageContents :
         /\ reads[k].status = "fulfilled" => pageContents[k] = reads[k].value
         /\ reads[k].status # "fulfilled" => pageContents[k].error

\* ----------------------------------------------------------------- C12

\* the source results that hold at least one item
WithData(rs) ==
  {i \in DOMAIN rs : "results" \in DOMAIN rs[i] /\ rs[i].results # <<>>}

ItemCounts(rs) ==
  [i \in DOMAIN rs |->
     IF "results" \in DOMAIN rs[i] THEN Len(rs[i].results) ELSE 0]

Range(seq) == {seq[i] : i \in DOMAIN seq}

UrlsOf(r) == IF "results" \in DOMAIN r THEN Range(r.results) ELSE {}

\* the sources that produced an item with url u
ProducersOf(u, rs) ==
  {rs[i].source : i \in {j \in DOMAIN rs : u \in UrlsOf(rs[j])}}

\* C13: crossReference emits an exact-url entry for a URL if and only if
\* items with that exact non-empty URL were produced by at least two distinct
\* sources; it emits at most one such entry per URL, and the entry's sources
\* are exactly the set of sources that produced an item with that URL.
C13_ExactUrlCrossRefs ==
  aconf # NotAnalysed =>
    \A u \in UNION {UrlsOf(ain[i]) : i \in DOMAIN ain}
               \cup {axref[i].url : i \in DOMAIN axref} :
      LET entries == {i \in DOMAIN axref :
                        axref[i].type = "exact-url" /\ axref[i].url = u}
          producers == ProducersOf(u, ain)
      IN /\ Cardinality(entries) =
              IF u # "" /\ Cardinality(producers) >= 2 THEN 1 ELSE 0
         /\ \A i \in entries :
              /\ Range(axref[i].sources) = producers
              /\ Len(axref[i].sources) = Cardinality(producers)

\* a url found by web and hn is cross-referenced with exactly these two,
\* while twitter's items, some without url, are not
C13_Witness ==
  /\ aconf # NotAnalysed
  /\ Len(ain) = 3
  /\ ain[2] = [source |-> "twitter", results |-> <<"", "">>, error |-> "none"]
  /\ \E i \in DOMAIN axref :
       axref[i] = [url |-> "u1", sources |-> <<"web", "hn">>,
                   type |-> "exact-url"]
  /\ \E u \in UrlsOf(ain[1]) : u # "" /\ ProducersOf(u, ain) = {"web"}

\* ----------------------------------------------------------------- C14

SubQuestionLabels ==
  <<"Overview & current state", "Key players & projects", "Technical details",
    "Challenges & risks", "Future outlook">>

\* C14: decomposeTopic(topic) returns exactly five sub-questions in the
\* fixed order overview, key players, technical details, challenges, future
\* outlook, each with 2 or 3 queries, and any two calls with the same topic
\* return identical labels and identical query lists.
C14_FiveSubQuestions ==
  \A i \in DOMAIN dcalls :
    LET out == dcalls[i].out
    IN /\ Len(out) = 5
       /\ [k \in DOMAIN out |-> out[k].label] = SubQuestionLabels
       /\ \A k \in DOMAIN out : Len(out[k].queries) \in {2, 3}
       /\ \A j \in DOMAIN dcalls :
            dcalls[j].topic = dcalls[i].topic => dcalls[j].out = out

\* the same topic decomposed twice with another topic in between
C14_Witness ==
  /\ Len(dcalls) = 3
  /\ dcalls[1].topic = <<"AI", "Agents">>
  /\ dcalls[3].topic = dcalls[1].topic
  /\ dcalls[2].topic # dcalls[1].topic
  /\ dcalls[3].out = dcalls[1].out
  /\ dcalls[2].out # dcalls[1].out
  /\ dcalls[1].out[1].queries[2] = <<"agents", "2026", "overview">>

\* ----------------------------------------------------------------- C15

\* a waitForSlot call returns in this step: at once, or after its wait
ReturnsNow ==
  \/ lcalls' = lcalls + 1 /\ lpc' = lpc
  \/ \E c \in Callers : lpc[c] = "waiting" /\ lpc'[c] = "idle"

\* new is old without some of its oldest entries
PrunedTo(old, new) ==
  \E k \in 0..Len(old) : new = SubSeq(old, k + 1, Len(old))

\* new is old without some of its oldest entries, and `now` appended once
AppendedTo(old, new) ==
  \E k \in 0..Len(old) : new = Append(SubSeq(old, k + 1, Len(old)), now)

OneTimestampPerReturn ==
  IF ReturnsNow
    THEN \E d \in DOMAIN requestLog' :
           /\ AppendedTo(LogOf(d), requestLog'[d])
           /\ Len(requestLog'[d]) <= Len(LogOf(d)) + 1
           /\ \A e \in DOMAIN requestLog' \ {d} : requestLog'[e] = LogOf(e)
    ELSE \A d \in DOMAIN requestLog' : PrunedTo(LogOf(d), requestLog'[d])

\* C15: every waitForSlot call eventually returns and never throws or
\* rejects, for a full URL, a bare domain or a malformed URL and any state of
\* the request log; besides the delay its only effect is one appended
\* timestamp.
C15_SlotAlwaysReturns ==
  /\ \A c \in Callers : (lpc[c] = "waiting") ~> (lpc[c] = "idle")
  /\ [][OneTimestampPerReturn]_vars

\* a call given a malformed URL has waited and returned, its timestamp
\* appended
C15_Witness ==
  \E c \in Callers :
    /\ lpc[c] = "idle"
    /\ lwake[c] > 0
    /\ ldomain[c] = <<"http://[bad">>
    /\ requestLog[ldomain[c]] # <<>>
    /\ requestLog[ldomain[c]][Len(requestLog[ldomain[c]])] >= lwake[c]

\* ------------------------------------------------------------------ C16
\* C16: a wait inside waitForSlot is never turned into a failure.  A job
\* that lost time nowhere but in waitForSlot (the browser answered at once
\* and nothing threw) is not rejected, and after the join its entry is in
\* allResults with no error.
OnlySlotDelays ==
  /\ \A i \in DOMAIN jlog : jlog[i].ev # "slow"
  /\ jrace.reason \in {"none", TimeoutError}
  /\ jr.error = "none"

C16_WaitIsNotAFailure ==
  OnlySlotDelays =>
    /\ jrace.status # "rejected"
    /\ joined => Len(jresults) = 1 /\ jresults[1].error = "none"

\* ------------------------------------------------------------------ C19
\* C19: every SourceResult of the session holds at most `limit` items, for
\* every source, in normal and in decompose mode.
C19_AtMostLimitItems ==
  /\ Settled(jrace) /\ jrace.status = "fulfilled"
       => Len(jrace.value.results) <= limit
  /\ \A i \in DOMAIN jresults : Len(jresults[i].results) <= limit

\* ------------------------------------------------------------------ C20
\* C20: every navigation a source job issues, a fallback navigation
\* included, comes after waitForSlot has admitted the job for the resource.
AdmittedBefore(i) == \E k \in 1..(i - 1) : jlog[k].ev = "admitted"

C20_AdmittedBeforeNavigation ==
  \A i \in DOMAIN jlog : jlog[i].ev = "goto" => AdmittedBefore(i)

\* ------------------------------------------------------------------ C17
\* C17: with an auth token set, a request without the matching
\* `Authorization: Bearer <token>` header is answered 401 and leaves the
\* server state as it found it; with the header GET /status is answered 200
\* with status "running" and POST /stop 200.
Authorized(req) ==
  req.authorization = <<"Bearer", serverAuthToken.value>>

C17_AuthGuard ==
  (serverAuthToken.set /\ exchange # NoExchange) =>
    IF Authorized(exchange.request)
      THEN /\ (exchange.request.path = "/status"
                 => exchange.response = Response(200, "running"))
           /\ (exchange.request.path = "/stop"
                 /\ exchange.request.method = "POST"
                 => exchange.response.code = 200)
      ELSE /\ exchange.response.code = 401
           /\ requestCount = exchange.found.requestCount
           /\ browser = exchange.found.browser
           /\ listening

\* ------------------------------------------------------------------ C18
\* C18: generateFingerprint(seed) with a non-null seed is deterministic.
\* Any two calls with the same seed return equal fingerprints whatever calls
\* were made in between, and calls with different seeds return fingerprints
\* that are not equal.
Seeded == {i \in DOMAIN fcalls : ~fcalls[i].seed.null}

C18_SeededFingerprint ==
  \A i, j \in Seeded :
    (fcalls[i].seed = fcalls[j].seed) <=> (fcalls[i].out = fcalls[j].out)

\* two calls with one seed around a call with another seed that hashes
\* alike: the outer two agree, the middle one differs from them
C18_Witness ==
  /\ Len(fcalls) = 3
  /\ fcalls[1].seed = Seed("Aa")
  /\ fcalls[2].seed = Seed("BB")
  /\ fcalls[3].seed = Seed("Aa")
  /\ seedHash("Aa") = seedHash("BB")
  /\ fcalls[1].out = fcalls[3].out
  /\ fcalls[2].out # fcalls[1].out

\* ----------------------------------------------------------------- C21
\* C21: on a cache miss the page reader runs the fetch through the retry
\* executor: readPage returns an error entry only after maxAttempts fetch
\* attempts have failed (a first failure is followed by another attempt).
FetchAttempts(L) ==
  Cardinality({i \in DOMAIN L : L[i] \in {"goto", "extract"}})

C21_ErrorOnlyAfterAllAttempts ==
  \A r \in Readers :
    (rdkind[r] = "readPage" /\ Has(rdlog[r], "return:error"))
      => FetchAttempts(rdlog[r]) >= DefaultRetries

\* ----------------------------------------------------------------- C22
\* C22: an attempt that failed with a cancellation or timeout signal is not
\* retried: its error is thrown to the caller at once, with no backoff wait
\* and no further invocation of the operation.
DeadlineMessages == {"Timeout 30000ms exceeded", "The operation was aborted"}

C22_DeadlineErrorsPropagate ==
  \A k \in DOMAIN rcalls :
    (~rcalls[k].ok /\ rcalls[k].value.message \in DeadlineMessages) =>
      /\ rpc = "thrown"
      /\ rresult = Throw(rcalls[k].value)
      /\ rinvoked = k
      /\ Len(slept) < k

\* ----------------------------------------------------------------- C23
\* C23: the decompose-mode web job issues one search per sub-question, one
\* after another (search k + 1 starts only after search k has returned and
\* its page is closed), each admitted by waitForSlot just before it goes to
\* the network, all under the one timer of the job, and its combined result
\* never holds two items with the same url.
Events(e) == {i \in DOMAIN jlog : jlog[i].ev = e}

NoDuplicates(items) ==
  \A i, k \in DOMAIN items : items[i] = items[k] => i = k

C23_DecomposeWebJob ==
  IsDecomposeJob(jargs) =>
    /\ Cardinality(Events("goto")) <= jq
    /\ jq \in webQueries
    /\ jpc \in {"goto", "evaluate", "close"} => Cardinality(Events("goto")) = jq
    /\ \A i \in Events("goto") : i > 1 /\ jlog[i - 1].ev = "admitted"
    /\ Cardinality(Events("timeout")) <= 1
    /\ timerAt = SourceTimeout
    /\ NoDuplicates(combinedResults)
    /\ jrace.status = "fulfilled" =>
         /\ NoDuplicates(jrace.value.results)
         /\ Cardinality(Events("goto")) = Cardinality(webQueries)

\* the job has made its five searches over pages that list the same urls,
\* and returned them once each
C23_Witness ==
  /\ IsDecomposeJob(jargs)
  /\ ~jargs.fresh
  /\ jrace.status = "fulfilled"
  /\ Len(jrace.value.results) = limit
  /\ Cardinality(Events("goto")) = 5

\* ----------------------------------------------------------------- C24
\* C24: the outcome of each source job is decided exactly once, by whichever
\* comes first of the producer settling and the job's timer firing.  Once
\* decided it never changes; a timeout outcome stands although the producer
\* settles later, and that late result is not in allResults; a producer
\* outcome stands although the timer fires later.
Decided(s) == Settled(race[s]) => race'[s] = race[s]

DecidedByTheFirst(s) ==
  /\ race[s].status = "fulfilled" => race[s] = job[s]
  /\ (Settled(race[s]) /\ race[s].reason = TimeoutError) => timerFired[s]
  /\ (Settled(job[s]) /\ ~timerFired[s]) => race[s] = job[s]
  /\ (timerFired[s] /\ ~Settled(job[s])) =>
       race[s] = Rejected(TimeoutError, NoResult)

OnlyDecidedResults ==
  phase # "search" =>
    \A k \in DOMAIN allResults :
      \E s \in sources :
        race[s].status = "fulfilled" /\ allResults[k] = race[s].value

C24_DecidedOnce ==
  /\ [][\A s \in sources : Decided(s)]_vars
  /\ [](\A s \in sources : DecidedByTheFirst(s))
  /\ []OnlyDecidedResults

\* a producer result arrived after the timer had rejected the race, and the
\* session holds no entry of that job
C24_Witness ==
  \E s \in sources :
    /\ phase # "search"
    /\ race[s] = Rejected(TimeoutError, NoResult)
    /\ job[s].status = "fulfilled"
    /\ \A k \in DOMAIN allResults : allResults[k].source # s

\* ----------------------------------------------------------------- C25
\* C25: with strictly sequential waitForSlot calls (and no recordRequest), a
\* call that finds R timestamps in the window suspends exactly once, for
\* oldest + W - now + 100 ms, then re-prunes and appends; a call that finds
\* fewer appends at once; so after every call the log of each key holds at
\* most R timestamps within [now - W, now].
Suspends(c) ==
  (lpc[c] = "idle" /\ lpc'[c] = "waiting") =>
    LET d == ldomain'[c]
        log == requestLog'[d]
    IN /\ Len(log) >= getLimit(d).requests
       /\ log = Prune(LogOf(d), now, getLimit(d).perMs)
       /\ lwake'[c] = now + (Head(log) + getLimit(d).perMs - now + 1)

Wakes(c) ==
  (lpc[c] = "waiting" /\ lpc'[c] = "idle") =>
    LET d == ldomain[c]
    IN /\ now >= lwake[c]
       /\ requestLog'[d] =
            Append(Prune(requestLog[d], now, getLimit(d).perMs), now)

AtMostRInWindow ==
  \A d \in DOMAIN requestLog :
    /\ InWindow(requestLog[d], now, getLimit(d).perMs) <= getLimit(d).requests
    /\ lpc[SequentialCaller] = "idle" =>
         Len(Prune(requestLog[d], now, getLimit(d).perMs))
           <= getLimit(d).requests

C25_SequentialCalls ==
  /\ [][Suspends(SequentialCaller) /\ Wakes(SequentialCaller)]_vars
  /\ []AtMostRInWindow

\* a call found the window full, suspended, and has returned with the log
\* full again
C25_Witness ==
  /\ lpc[SequentialCaller] = "idle"
  /\ lwake[SequentialCaller] > 0
  /\ now >= lwake[SequentialCaller]
  /\ \E d \in DOMAIN requestLog :
       /\ d = ldomain[SequentialCaller]
       /\ requestLog[d] # <<>>
       /\ requestLog[d][Len(requestLog[d])] = lwake[SequentialCaller]
       /\ InWindow(requestLog[d], now, getLimit(d).perMs) = getLimit(d).requests

\* ----------------------------------------------------------------- C26
\* C26: request logs are keyed by the exact host string, even when the limit
\* is resolved through the parent domain: a waitForSlot call on one host
\* leaves the log of every other host as it was, and whether it suspends is
\* decided by the pruned log of its own host alone.
HostString(a) == IF a.scheme /\ a.valid THEN a.hostname ELSE a.raw

OtherLogsKept(host) ==
  /\ DOMAIN requestLog' = DOMAIN requestLog \cup {host}
  /\ \A e \in DOMAIN requestLog \ {host} : requestLog'[e] = requestLog[e]

OwnLogDecides(c, a) ==
  LET host == HostString(a)
      own == Prune(LogOf(host), now, getLimit(host).perMs)
  IN /\ lpc'[c] = "waiting" <=> Len(own) >= getLimit(host).requests
     /\ requestLog'[host] =
          IF lpc'[c] = "waiting" THEN own ELSE Append(own, now)

C26_KeyedByHost ==
  [][/\ \A c \in Callers, a \in SlotArgs :
          WaitForSlotCall(c, a) =>
            OtherLogsKept(HostString(a)) /\ OwnLogDecides(c, a)
     /\ \A c \in Callers :
          WaitForSlotResume(c) => OtherLogsKept(ldomain[c])]_vars

\* google.com and www.google.com resolve to the same limit; each holds its
\* own full log at the same instant and nobody had to wait
C26_Witness ==
  LET g == <<"google", "com">>
      w == <<"www", "google", "com">>
  IN /\ g \in DOMAIN requestLog /\ w \in DOMAIN requestLog
     /\ getLimit(w) = rateLimits[g]
     /\ requestLog[g] = <<now>> /\ requestLog[w] = <<now>>
     /\ Len(requestLog[g]) = getLimit(g).requests
     /\ \A c \in Callers : lpc[c] = "idle" /\ lwake[c] = 0

\* ----------------------------------------------------------------- C27
\* C27: a page read that fails (navigation, extraction or PDF extraction
\* error) or that ends in a CAPTCHA placeholder never creates or overwrites a
\* cache entry: it never calls setCache, and while no other read has stored
\* the page, the cache file of its url is the one the read found, or is
\* absent when the read found an expired file, which its lookup deleted.
ReadFailed(r) ==
  /\ rdpc[r] = "done"
  /\ \/ Has(rdlog[r], "return:error")
     \/ Has(rdlog[r], "throw")
     \/ Has(rdlog[r], "return:captcha")

NobodyStored(u) ==
  \A q \in Readers : rdurl[q] = u => ~Has(rdlog[q], "setCache")

FoundExpired(r) ==
  /\ rdbefore[r].file.exists
  /\ rdbefore[r].expired

C27_FailedReadKeepsCache ==
  \A r \in Readers :
    ReadFailed(r) =>
      /\ ~Has(rdlog[r], "setCache")
      /\ NobodyStored(rdurl[r]) =>
           files[cacheKey(rdurl[r].href)] =
             IF FoundExpired(r) THEN NoFile ELSE rdbefore[r].file

\* the statement as written: the cache content for the url is the same after
\* the failed read as before it
C27_SameAsBefore ==
  \A r \in Readers :
    (ReadFailed(r) /\ NobodyStored(rdurl[r])) =>
      files[cacheKey(rdurl[r].href)] = rdbefore[r].file

\* a read found an expired file, failed, and the file is gone; another read
\* ended in a CAPTCHA placeholder
C27_Witness ==
  \E r, q \in Readers :
    /\ ReadFailed(r) /\ FoundExpired(r) /\ NobodyStored(rdurl[r])
    /\ Has(rdlog[r], "return:error")
    /\ ~files[cacheKey(rdurl[r].href)].exists
    /\ ReadFailed(q) /\ Has(rdlog[q], "return:captcha")

\* ----------------------------------------------------------------- C28
\* C28: the chunked page-read loop terminates for every list of URLs and every
\* concurrency value the command line accepts (--concurrency 0 and non-numeric
\* input included), and when it has terminated a read has been started for
\* every URL.
EveryUrlStarted ==
  /\ DOMAIN reads = DOMAIN urlsToRead
  /\ \A k \in DOMAIN reads : reads[k].status # "notstarted"

LoopLeft == phase \in {"closing", "output"}

C28_ChunkLoopTerminates ==
  /\ (phase = "read") ~> LoopLeft
  /\ [](LoopLeft => EveryUrlStarted)

\* ----------------------------------------------------------------- C29
\* C29: the HTTP server launches its persistent browser at most once, even
\* when /search or /fetch requests arrive before the first launch has
\* completed, and every request uses that one browser.
C29_OneLaunch ==
  /\ launches <= 1
  /\ \A r, q \in BrowserRequests :
       (gpc[r] \in {"using", "answered"} /\ gpc[q] \in {"using", "answered"})
         => gusing[r] = gusing[q]

\* ----------------------------------------------------------------- C30
\* C30: in watch mode, after every completed doCheck the persisted hash for
\* the url equals the hash of the content just fetched; the first check (no
\* persisted state) stores a baseline and reports changed = false, and every
\* later check reports changed = true exactly when its hash differs from the
\* persisted one.
NoHash == "none"

PersistedHash(file) ==
  IF file.exists /\ file.text.ok /\ "hash" \in Keys(JSON_parse(file.text))
    THEN Get(JSON_parse(file.text), "hash").s
    ELSE NoHash

Completes(k) == wpc[k] = "checkPage" /\ wpc'[k] = "done"

C30_PersistedHashFollows ==
  [][\A k \in Checks :
       Completes(k) =>
         /\ PersistedHash(wfile') = md5(wfetched'[k])
         /\ wresult'[k].returned
         /\ ~wfile.exists =>
              /\ wresult'[k] = CheckResult(FALSE, TRUE)
              /\ wfile'.exists
         /\ wfile.exists =>
              /\ ~wresult'[k].first
              /\ wresult'[k].changed
                   <=> (PersistedHash(wfile) # md5(wfetched'[k]))]_vars

\* a baseline was stored by the first check, a later check found the page
\* changed and a third one, overlapping it, found it unchanged again
C30_Witness ==
  /\ ~once
  /\ wresult[1] = CheckResult(FALSE, TRUE)
  /\ \E j, k \in Checks :
       /\ j # k
       /\ wresult[j] = CheckResult(TRUE, FALSE)
       /\ wresult[k] = CheckResult(FALSE, FALSE)
       /\ wfetched[j] # wfetched[1]
  /\ \E k \in Checks : wpc[k] = "done" /\ PersistedHash(wfile) = md5(wfetched[k])

\* ------------------------------------------------------------------ C5

RetryDone == rpc \in {"returned", "thrown"}

\* C5: withRetry invokes the operation at most maxAttempts times for every
\* attempt count N >= 0 the caller supplies, stops at the first successful
\* attempt and returns that attempt's value without invoking the operation
\* again.
C5_AtMostSuppliedAttempts ==
  (ropts.retries.t = "num" /\ ropts.retries.n >= 0) =>
    /\ rinvoked <= ropts.retries.n
    /\ \A i \in 1..Len(rcalls) :
         rcalls[i].ok =>
           /\ i = Len(rcalls)
           /\ rinvoked = i
           /\ rpc = "returned"
           /\ rresult = [kind |-> "return", value |-> rcalls[i].value]

\* ------------------------------------------------------------------ C6

\* the failed attempts k with k < maxAttempts, so far
FailedBeforeLast ==
  {k \in 1..Len(rcalls) : ~rcalls[k].ok /\ k < maxAttempts}

\* C6: after the k-th failed attempt with k < maxAttempts withRetry waits
\* baseDelay * 2^(k-1) (the first wait is baseDelay and every wait doubles
\* the one before), and it waits nothing after the final attempt; failing on
\* attempts 1 and 2 and succeeding on attempt 3 with maxAttempts = 3 waits
\* baseDelay + 2*baseDelay in total.
C6_BackoffSchedule ==
  /\ Len(slept) = Cardinality(FailedBeforeLast)
  /\ Len(slept) >= 1 => slept[1] = baseDelay
  /\ \A k \in 2..Len(slept) : slept[k] = 2 * slept[k - 1]
  /\ rpc = "calling" => Len(slept) = attempt - 1
  /\ ( /\ rpc = "returned"
       /\ maxAttempts = 3
       /\ Len(rcalls) = 3
       /\ ~rcalls[1].ok /\ ~rcalls[2].ok /\ rcalls[3].ok )
     => SumSeq(slept) = baseDelay + 2 * baseDelay

C6_Witness ==
  /\ rpc = "returned"
  /\ maxAttempts = 3
  /\ Len(rcalls) = 3
  /\ ~rcalls[1].ok /\ ~rcalls[2].ok /\ rcalls[3].ok
  /\ slept = <<2000, 4000>>

\* ------------------------------------------------------------------ C7

\* C7: when every attempt fails, withRetry throws the error raised by the
\* last attempt, unchanged and unwrapped, and never the error of an earlier
\* attempt.
C7_ThrowsLastError ==
  /\ rpc = "thrown" =>
       /\ Len(rcalls) = maxAttempts
       /\ \A i \in 1..Len(rcalls) : ~rcalls[i].ok
       /\ rresult = [kind |-> "throw", value |-> rcalls[Len(rcalls)].value]
       /\ \A i \in 1..(Len(rcalls) - 1) : rresult.value # rcalls[i].value
  /\ ( /\ RetryDone
       /\ Len(rcalls) >= 1
       /\ \A i \in 1..Len(rcalls) : ~rcalls[i].ok )
     => rpc = "thrown"

C7_Witness ==
  /\ rpc = "thrown"
  /\ maxAttempts = 2
  /\ Len(rcalls) = 2
  /\ rcalls[1].value.message # rcalls[2].value.message
  /\ rresult.value = rcalls[2].value

====
